---- MODULE Spec2Model ----
(***************************************************************************)
(* ModuleLogger: a consumer for the log crate with module-wise levels.     *)
(* The model follows src/src/logger_params.rs (LoggerParams) and           *)
(* src/src/lib.rs (Logger).                                                *)
(*                                                                         *)
(* Strings are tuples of one-character strings, Option<T> is a tuple of    *)
(* length 0 (None) or 1 (Some), a HashMap is a function on its key set.    *)
(***************************************************************************)
EXTENDS Integers, Sequences, FiniteSets, TLC

VARIABLES
    params,     \* the LoggerParams behind Logger.inner (Arc<Mutex<..>>)
    gate,       \* the log facade's global filter, log::max_level()
    exe_name,   \* Logger.exe_name : Option<String>
    console,    \* what was written to stdout() and stderr()
    streams,    \* the stream objects attached so far: the bytes written to each
    flushed,    \* the streams flush() was called on by the call in progress, in order
    nrec,       \* number of records passed to Logger::log so far
    last,       \* the last call made and what it returned
    pending,    \* bytes appended to the allocated buffer since it was last emptied
    trip,       \* bookkeeping of a buffer -> stream -> buffer round trip
    lk,         \* the loop of LoggerParams::get_mod_level, one iteration per step
    th,         \* per thread: the public operation in progress and its position
    registered, \* number of log::set_boxed_logger calls made by Logger::new
    singletons  \* number of Logger singletons constructed under ONCE

vars == <<params, gate, exe_name, console, streams, flushed, nrec, last,
          pending, trip, lk, th, registered, singletons>>

----------------------------------------------------------------------------
(* Bounds of the model *)

MaxRecords == 2
MaxEmit == 1
MaxStreams == 2
MaxCalls == 1
MaxRace == 2
MaxFiles == 2

----------------------------------------------------------------------------
(* log::Level and log::LevelFilter: Error < Warn < Info < Debug < Trace,   *)
(* Trace the most verbose; LevelFilter adds Off below Error.               *)

Error == 1
Warn == 2
Info == 3
Debug == 4
Trace == 5
Off == 0

Levels == {Error, Warn, Info, Debug, Trace}

to_level_filter(level) == level

DEFAULT_LOG_LEVEL == Info

None == <<>>
Some(x) == <<x>>
IsSome(o) == o # <<>>
Unwrap(o) == o[1]

----------------------------------------------------------------------------
(* LogDestination and its predicates *)

LogDestination == {"Stdout", "Stderr", "Stream", "StreamStdout", "StreamStderr",
                   "Buffer", "BufferStdout", "BufferStderr"}

DEFAULT_LOG_DEST == "Stderr"

is_stream_dest(d) == d = "Stream" \/ d = "StreamStderr" \/ d = "StreamStdout"

is_buffer_dest(d) == d = "Buffer" \/ d = "BufferStderr" \/ d = "BufferStdout"

\* is_stderr without the stream-class variant
is_stderr_plain(d) == d = "Stderr" \/ d = "BufferStderr"

is_stderr(d) == d = "Stderr" \/ d = "BufferStderr" \/ d = "StreamStderr"

is_stdout(d) == d = "Stdout" \/ d = "BufferStdout" \/ d = "StreamStdout"

----------------------------------------------------------------------------
(* Module paths *)

pEmpty == <<>>
pA == <<"a">>
pB == <<"b">>
pZ == <<"z">>
pAB == <<"a", ":", ":", "b">>
pAX == <<"a", ":", ":", "x">>
pABC == <<"a", ":", ":", "b", ":", ":", "c">>
pA_ == <<"a", ":", ":">>
p_A == <<":", ":", "a">>
pA3B == <<"a", ":", ":", ":", "b">>
pMain == <<"m", "a", "i", "n">>
pUndefined == <<"u", "n", "d", "e", "f", "i", "n", "e", "d">>

\* the keys used for overrides
ModKeys == {pA, pAB, pB}

\* the module paths of the records passed to Logger::log
RecPaths == {pA, pAB, pABC, pAX, pB, pZ}

\* the module paths get_mod_level is asked about
LookupPaths == RecPaths \cup {pEmpty, pA_, p_A, pA3B}

\* the override tables get_mod_level is run on
LookupKeys == {pA, pAB, pEmpty}

IsPrefixAt(s, pat, i) ==
    /\ i >= 1
    /\ i + Len(pat) - 1 <= Len(s)
    /\ \A k \in 1..Len(pat) : s[i + k - 1] = pat[k]

Sep == <<":", ":">>

\* str::find in the place of str::rfind: the least index
rfind_first(s) ==
    LET hits == {i \in 1..Len(s) : IsPrefixAt(s, Sep, i)}
    IN  IF hits = {} THEN None
        ELSE Some((CHOOSE i \in hits : \A j \in hits : i <= j) - 1)

\* str::rfind("::"): the greatest byte index (0-based) at which "::" starts
rfind(s) ==
    LET hits == {i \in 1..Len(s) : IsPrefixAt(s, Sep, i)}
    IN  IF hits = {} THEN None
        ELSE Some((CHOOSE i \in hits : \A j \in hits : j <= i) - 1)

\* split_at(index).1 in the place of .0: the part from the "::" on
split_at_rest(s, index) == SubSeq(s, index + 1, Len(s))

\* str::split_at(index).0
split_at(s, index) == SubSeq(s, 1, index)

----------------------------------------------------------------------------
(* LoggerParams *)

LoggerParams_new(log_level) ==
    [ log_dest      |-> DEFAULT_LOG_DEST,
      log_stream    |-> None,
      log_buffer    |-> None,
      default_level |-> log_level,
      max_level     |-> log_level,
      mod_level     |-> <<>>,
      initialised   |-> FALSE,
      color         |-> FALSE,
      brief_info    |-> FALSE,
      timestamp     |-> TRUE,
      millis        |-> FALSE ]

\* HashMap::insert
Insert(map, key, value) ==
    [k \in DOMAIN map \cup {key} |-> IF k = key THEN value ELSE map[k]]

\* the loop of recalculate_max_level, over the values of mod_level
RECURSIVE FoldMax(_, _, _)
FoldMax(map, keys, acc) ==
    IF keys = {} THEN acc
    ELSE LET k == CHOOSE x \in keys : TRUE
             level == map[k]
         IN  FoldMax(map, keys \ {k}, IF acc < level THEN level ELSE acc)

recalculate_max_level(p) ==
    [p EXCEPT !.max_level = FoldMax(p.mod_level, DOMAIN p.mod_level, p.default_level)]

\* set_mod_level that keeps max_level when the new level is lower
set_mod_level_keep(p, module, level) ==
    LET q == [p EXCEPT !.mod_level = Insert(p.mod_level, module, level)]
    IN  IF level > q.max_level THEN [q EXCEPT !.max_level = level] ELSE q

set_mod_level(p, module, level) ==
    LET q == [p EXCEPT !.mod_level = Insert(p.mod_level, module, level)]
    IN  IF level > q.max_level THEN [q EXCEPT !.max_level = level]
        ELSE IF level < q.max_level THEN recalculate_max_level(q)
        ELSE q

RECURSIVE InsertAll(_, _, _)
InsertAll(map, cfg, keys) ==
    IF keys = {} THEN map
    ELSE LET k == CHOOSE x \in keys : TRUE
         IN  InsertAll(Insert(map, k, cfg[k]), cfg, keys \ {k})

set_mod_config(p, mod_config) ==
    recalculate_max_level(
        [p EXCEPT !.mod_level = InsertAll(p.mod_level, mod_config, DOMAIN mod_config)])

set_default_level(p, level) ==
    LET q == [p EXCEPT !.default_level = level]
    IN  IF level >= q.max_level THEN [q EXCEPT !.max_level = level]
        ELSE recalculate_max_level(q)

\* one iteration of the loop of get_mod_level on mod_path:
\* the value returned, or the path the next iteration continues with
get_mod_level_iter(p, mod_path) ==
    IF mod_path \in DOMAIN p.mod_level
    THEN [ret |-> TRUE, value |-> Some(p.mod_level[mod_path]), path |-> mod_path]
    ELSE LET index == rfind(mod_path)
         IN  IF IsSome(index)
             THEN [ret |-> FALSE, value |-> None, path |-> split_at(mod_path, Unwrap(index))]
             ELSE [ret |-> TRUE, value |-> None, path |-> mod_path]

RECURSIVE get_mod_level(_, _)
get_mod_level(p, module) ==
    LET it == get_mod_level_iter(p, module)
    IN  IF it.ret THEN it.value ELSE get_mod_level(p, it.path)

\* initialised that tests the flag and leaves it as it is
initialised_tested(p) == [params |-> p, ret |-> p.initialised]

\* LoggerParams::initialised: tests and sets the flag
initialised(p) == [params |-> [p EXCEPT !.initialised = TRUE], ret |-> p.initialised]

set_color(p, color) == [p EXCEPT !.color = color]

set_brief_info(p, val) == [p EXCEPT !.brief_info = val]

set_timestamp(p, val) == [p EXCEPT !.timestamp = val]

set_millis(p, val) == [p EXCEPT !.millis = val]

\* retrieve_log_buffer that returns the copy and leaves the buffer as it is
retrieve_log_buffer_keep(p) ==
    IF IsSome(p.log_buffer)
    THEN [params |-> p, ret |-> Some(Unwrap(p.log_buffer))]
    ELSE [params |-> p, ret |-> None]

\* retrieve_log_buffer that reports an empty buffer as no buffer
retrieve_log_buffer_absent(p) ==
    IF IsSome(p.log_buffer) /\ Unwrap(p.log_buffer) # <<>>
    THEN [params |-> [p EXCEPT !.log_buffer = Some(<<>>)], ret |-> Some(Unwrap(p.log_buffer))]
    ELSE [params |-> p, ret |-> None]

\* retrieve_log_buffer: the copy returned and the params with the buffer cleared
retrieve_log_buffer(p) ==
    IF IsSome(p.log_buffer)
    THEN [params |-> [p EXCEPT !.log_buffer = Some(<<>>)], ret |-> Some(Unwrap(p.log_buffer))]
    ELSE [params |-> p, ret |-> None]

\* LoggerParams::flush: the attached stream is flushed when the destination
\* is stream-class (stdout/stderr flushes leave nothing to observe);
\* fl lists the flush() calls on streams made so far
flush(p, fl) ==
    IF is_stream_dest(p.log_dest) /\ IsSome(p.log_stream)
    THEN Append(fl, Unwrap(p.log_stream))
    ELSE fl

\* set_log_dest that stores the destination before it looks at the stream
set_log_dest_early(p, dest, stream) ==
    IF is_stream_dest(dest) /\ stream = None
    THEN [params |-> [p EXCEPT !.log_dest = dest], ret |-> "InvParam"]
    ELSE IF is_stream_dest(dest)
    THEN [params |-> [p EXCEPT !.log_dest = dest, !.log_stream = stream], ret |-> "Ok"]
    ELSE IF is_buffer_dest(dest)
    THEN [params |-> [p EXCEPT !.log_dest = dest, !.log_stream = None,
                               !.log_buffer = IF p.log_buffer = None THEN Some(<<>>) ELSE @],
          ret |-> "Ok"]
    ELSE [params |-> [p EXCEPT !.log_stream = None, !.log_dest = dest, !.log_buffer = None],
          ret |-> "Ok"]

\* set_log_dest that takes a stream-class destination without a stream
set_log_dest_unchecked(p, dest, stream) ==
    IF is_stream_dest(dest)
    THEN [params |-> [p EXCEPT !.log_dest = dest, !.log_stream = stream], ret |-> "Ok"]
    ELSE IF is_buffer_dest(dest)
    THEN [params |-> [p EXCEPT !.log_dest = dest, !.log_stream = None,
                               !.log_buffer = IF p.log_buffer = None THEN Some(<<>>) ELSE @],
          ret |-> "Ok"]
    ELSE [params |-> [p EXCEPT !.log_stream = None, !.log_dest = dest, !.log_buffer = None],
          ret |-> "Ok"]

\* set_log_dest that allocates a new buffer on every switch to a buffer-class
\* destination
set_log_dest_fresh(p, dest, stream) ==
    IF is_stream_dest(dest)
    THEN IF IsSome(stream)
         THEN [params |-> [p EXCEPT !.log_dest = dest, !.log_stream = stream], ret |-> "Ok"]
         ELSE [params |-> p, ret |-> "InvParam"]
    ELSE IF is_buffer_dest(dest)
    THEN [params |-> [p EXCEPT !.log_dest = dest, !.log_stream = None,
                               !.log_buffer = Some(<<>>)],
          ret |-> "Ok"]
    ELSE [params |-> [p EXCEPT !.log_stream = None, !.log_dest = dest, !.log_buffer = None],
          ret |-> "Ok"]

\* set_log_dest that releases the buffer on a switch to a stream-class
\* destination
set_log_dest_release(p, dest, stream) ==
    IF is_stream_dest(dest)
    THEN IF IsSome(stream)
         THEN [params |-> [p EXCEPT !.log_dest = dest, !.log_stream = stream,
                                    !.log_buffer = None],
               ret |-> "Ok"]
         ELSE [params |-> p, ret |-> "InvParam"]
    ELSE IF is_buffer_dest(dest)
    THEN [params |-> [p EXCEPT !.log_dest = dest, !.log_stream = None,
                               !.log_buffer = IF p.log_buffer = None THEN Some(<<>>) ELSE @],
          ret |-> "Ok"]
    ELSE [params |-> [p EXCEPT !.log_stream = None, !.log_dest = dest, !.log_buffer = None],
          ret |-> "Ok"]

\* set_log_dest that leaves the stream attached on a switch to a buffer-class
\* destination
set_log_dest_attached(p, dest, stream) ==
    IF is_stream_dest(dest)
    THEN IF IsSome(stream)
         THEN [params |-> [p EXCEPT !.log_dest = dest, !.log_stream = stream], ret |-> "Ok"]
         ELSE [params |-> p, ret |-> "InvParam"]
    ELSE IF is_buffer_dest(dest)
    THEN [params |-> [p EXCEPT !.log_dest = dest,
                               !.log_buffer = IF p.log_buffer = None THEN Some(<<>>) ELSE @],
          ret |-> "Ok"]
    ELSE [params |-> [p EXCEPT !.log_stream = None, !.log_dest = dest, !.log_buffer = None],
          ret |-> "Ok"]

\* LoggerParams::set_log_dest after its call of self.flush()
set_log_dest(p, dest, stream) ==
    IF is_stream_dest(dest)
    THEN IF IsSome(stream)
         THEN [params |-> [p EXCEPT !.log_dest = dest, !.log_stream = stream],
               ret |-> "Ok"]
         ELSE [params |-> p, ret |-> "InvParam"]
    ELSE IF is_buffer_dest(dest)
    THEN [params |-> [p EXCEPT !.log_dest = dest,
                               !.log_stream = None,
                               !.log_buffer = IF p.log_buffer = None THEN Some(<<>>) ELSE @],
          ret |-> "Ok"]
    ELSE [params |-> [p EXCEPT !.log_stream = None,
                               !.log_dest = dest,
                               !.log_buffer = None],
          ret |-> "Ok"]

----------------------------------------------------------------------------
(* Logger::log *)

\* Regex ^([^:]+)::(.*)$ : the two capture groups, or None
captures(s) ==
    LET colons == {i \in 1..Len(s) : s[i] = ":"}
        n == IF colons = {} THEN Len(s)
             ELSE (CHOOSE i \in colons : \A j \in colons : i <= j) - 1
    IN  IF n >= 1 /\ IsPrefixAt(s, Sep, n + 1)
        THEN Some(<<SubSeq(s, 1, n), SubSeq(s, n + 3, Len(s))>>)
        ELSE None

\* the lookup made with the full module path
mod_name_tag_full(exe, module_path) ==
    IF IsSome(module_path) THEN <<Unwrap(module_path), Unwrap(module_path)>>
    ELSE <<pUndefined, pUndefined>>

\* (mod_name, mod_tag) of a record
mod_name_tag(exe, module_path) ==
    IF IsSome(module_path)
    THEN LET mod_path == Unwrap(module_path)
         IN  IF IsSome(exe)
             THEN IF IsSome(captures(mod_path))
                  THEN IF Unwrap(captures(mod_path))[1] = Unwrap(exe)
                       THEN <<mod_path, Unwrap(captures(mod_path))[2]>>
                       ELSE <<mod_path, mod_path>>
                  ELSE IF mod_path = Unwrap(exe)
                  THEN <<mod_path, pMain>>
                  ELSE <<mod_path, mod_path>>
             ELSE <<mod_path, mod_path>>
    ELSE <<pUndefined, pUndefined>>

\* the level a record is compared with
effective_level(p, mod_tag) ==
    IF IsSome(get_mod_level(p, mod_tag)) THEN Unwrap(get_mod_level(p, mod_tag))
    ELSE p.default_level

\* a level check that drops records at the effective level itself
passes_strict(curr_level, level) == curr_level < level

\* the record passes the level check of Logger::log
passes(curr_level, level) == curr_level <= level

\* format!("{:<5}", level.to_string())
LevelName(level) ==
    CASE level = Error -> "ERROR"
      [] level = Warn  -> "WARN "
      [] level = Info  -> "INFO "
      [] level = Debug -> "DEBUG"
      [] level = Trace -> "TRACE"

\* the timestamp prefix; the time itself is an opaque token
timestamp(p) ==
    IF p.timestamp
    THEN IF p.millis THEN <<"TS", ".mmm", " ">> ELSE <<"TS", " ">>
    ELSE <<>>

ColorOf(level) ==
    CASE level = Error -> "red"
      [] level = Warn  -> "yellow"
      [] level = Info  -> "green"
      [] level = Debug -> "cyan"
      [] level = Trace -> "blue"

\* a format that leaves the module tag out whenever brief_info is set
format_output_brief(p, rec, mod_name) ==
    LET plain == IF p.brief_info
                 THEN timestamp(p) \o <<LevelName(rec.level), " ">> \o rec.args \o <<"\n">>
                 ELSE timestamp(p) \o <<LevelName(rec.level), " ", "[">> \o mod_name
                          \o <<"]", " ">> \o rec.args \o <<"\n">>
    IN  IF p.color THEN <<ColorOf(rec.level)>> \o plain \o <<"reset">> ELSE plain

\* the formatted line of a record
format_output(p, rec, mod_name) ==
    LET plain == IF p.brief_info /\ rec.level = Info
                 THEN timestamp(p) \o <<LevelName(rec.level), " ">> \o rec.args \o <<"\n">>
                 ELSE timestamp(p) \o <<LevelName(rec.level), " ", "[">> \o mod_name
                          \o <<"]", " ">> \o rec.args \o <<"\n">>
    IN  IF p.color THEN <<ColorOf(rec.level)>> \o plain \o <<"reset">> ELSE plain

write_console(con, which, output) == [con EXCEPT ![which] = @ \o output]

write_stream(strs, id, output) == [strs EXCEPT ![id] = @ \o output]

write_buffer(p, output) == [p EXCEPT !.log_buffer = Some(Unwrap(@) \o output)]

\* the outcomes of the write calls of one Logger::log call: of the write to
\* the attached stream and of the write to stdout or stderr (a write to the
\* Vec<u8> buffer returns Ok always)
AllOk == [stream |-> TRUE, console |-> TRUE]

\* a match whose dual arms return at the failed write to the stream
write_output_io_abort(p, con, strs, output, io) ==
    LET d == p.log_dest
        wc(which) == IF io.console THEN write_console(con, which, output) ELSE con
        cres == IF io.console THEN "Ok" ELSE "Err"
        ws == IF io.stream THEN write_stream(strs, Unwrap(p.log_stream), output) ELSE strs
        sres == IF io.stream THEN "Ok" ELSE "Err"
        unchanged == [params |-> p, console |-> con, streams |-> strs, fallback |-> FALSE,
                      res |-> "Ok"]
    IN  CASE d = "Stderr" -> [unchanged EXCEPT !.console = wc("stderr"), !.res = cres]
          [] d = "Stdout" -> [unchanged EXCEPT !.console = wc("stdout"), !.res = cres]
          [] d = "Stream" ->
                IF IsSome(p.log_stream)
                THEN [unchanged EXCEPT !.streams = ws, !.res = sres]
                ELSE [unchanged EXCEPT !.console = wc("stderr"), !.res = cres,
                                       !.fallback = TRUE]
          [] d = "StreamStdout" ->
                IF IsSome(p.log_stream) /\ ~io.stream THEN [unchanged EXCEPT !.res = "Err"]
                ELSE [unchanged EXCEPT !.streams = IF IsSome(p.log_stream) THEN ws ELSE @,
                                       !.console = wc("stdout"), !.res = cres]
          [] d = "StreamStderr" ->
                IF IsSome(p.log_stream) /\ ~io.stream THEN [unchanged EXCEPT !.res = "Err"]
                ELSE [unchanged EXCEPT !.streams = IF IsSome(p.log_stream) THEN ws ELSE @,
                                       !.console = wc("stderr"), !.res = cres]
          [] d = "Buffer" ->
                IF IsSome(p.log_buffer)
                THEN [unchanged EXCEPT !.params = write_buffer(p, output)]
                ELSE [unchanged EXCEPT !.console = wc("stderr"), !.res = cres,
                                       !.fallback = TRUE]
          [] d = "BufferStdout" ->
                [unchanged EXCEPT
                    !.params = IF IsSome(p.log_buffer) THEN write_buffer(p, output) ELSE @,
                    !.console = wc("stdout"), !.res = cres]
          [] d = "BufferStderr" ->
                [unchanged EXCEPT
                    !.params = IF IsSome(p.log_buffer) THEN write_buffer(p, output) ELSE @,
                    !.console = wc("stderr"), !.res = cres]

\* the match on get_log_dest() in Logger::log with the outcomes io of its
\* write calls: a write that returns Err has written nothing; res is the
\* value of the match, which Logger::log binds to _res and drops
write_output_io(p, con, strs, output, io) ==
    LET d == p.log_dest
        wc(which) == IF io.console THEN write_console(con, which, output) ELSE con
        cres == IF io.console THEN "Ok" ELSE "Err"
        ws == IF io.stream THEN write_stream(strs, Unwrap(p.log_stream), output) ELSE strs
        sres == IF io.stream THEN "Ok" ELSE "Err"
        unchanged == [params |-> p, console |-> con, streams |-> strs, fallback |-> FALSE,
                      res |-> "Ok"]
    IN  CASE d = "Stderr" -> [unchanged EXCEPT !.console = wc("stderr"), !.res = cres]
          [] d = "Stdout" -> [unchanged EXCEPT !.console = wc("stdout"), !.res = cres]
          [] d = "Stream" ->
                IF IsSome(p.log_stream)
                THEN [unchanged EXCEPT !.streams = ws, !.res = sres]
                ELSE [unchanged EXCEPT !.console = wc("stderr"), !.res = cres,
                                       !.fallback = TRUE]
          [] d = "StreamStdout" ->
                [unchanged EXCEPT !.streams = IF IsSome(p.log_stream) THEN ws ELSE @,
                                  !.console = wc("stdout"), !.res = cres]
          [] d = "StreamStderr" ->
                [unchanged EXCEPT !.streams = IF IsSome(p.log_stream) THEN ws ELSE @,
                                  !.console = wc("stderr"), !.res = cres]
          [] d = "Buffer" ->
                IF IsSome(p.log_buffer)
                THEN [unchanged EXCEPT !.params = write_buffer(p, output)]
                ELSE [unchanged EXCEPT !.console = wc("stderr"), !.res = cres,
                                       !.fallback = TRUE]
          [] d = "BufferStdout" ->
                [unchanged EXCEPT
                    !.params = IF IsSome(p.log_buffer) THEN write_buffer(p, output) ELSE @,
                    !.console = wc("stdout"), !.res = cres]
          [] d = "BufferStderr" ->
                [unchanged EXCEPT
                    !.params = IF IsSome(p.log_buffer) THEN write_buffer(p, output) ELSE @,
                    !.console = wc("stderr"), !.res = cres]

\* the match with the console arm of StreamStderr writing to stdout
write_output_crossed(p, con, strs, output) ==
    LET d == p.log_dest
        unchanged == [params |-> p, console |-> con, streams |-> strs, fallback |-> FALSE]
    IN  CASE d = "Stderr" -> [unchanged EXCEPT !.console = write_console(con, "stderr", output)]
          [] d = "Stdout" -> [unchanged EXCEPT !.console = write_console(con, "stdout", output)]
          [] d = "Stream" ->
                IF IsSome(p.log_stream)
                THEN [unchanged EXCEPT !.streams = write_stream(strs, Unwrap(p.log_stream), output)]
                ELSE [unchanged EXCEPT !.console = write_console(con, "stderr", output),
                                       !.fallback = TRUE]
          [] d = "StreamStdout" ->
                [unchanged EXCEPT
                    !.streams = IF IsSome(p.log_stream)
                                THEN write_stream(strs, Unwrap(p.log_stream), output) ELSE @,
                    !.console = write_console(con, "stdout", output)]
          [] d = "StreamStderr" ->
                [unchanged EXCEPT
                    !.streams = IF IsSome(p.log_stream)
                                THEN write_stream(strs, Unwrap(p.log_stream), output) ELSE @,
                    !.console = write_console(con, "stdout", output)]
          [] d = "Buffer" ->
                IF IsSome(p.log_buffer)
                THEN [unchanged EXCEPT !.params = write_buffer(p, output)]
                ELSE [unchanged EXCEPT !.console = write_console(con, "stderr", output),
                                       !.fallback = TRUE]
          [] d = "BufferStdout" ->
                [unchanged EXCEPT
                    !.params = IF IsSome(p.log_buffer) THEN write_buffer(p, output) ELSE @,
                    !.console = write_console(con, "stdout", output)]
          [] d = "BufferStderr" ->
                [unchanged EXCEPT
                    !.params = IF IsSome(p.log_buffer) THEN write_buffer(p, output) ELSE @,
                    !.console = write_console(con, "stderr", output)]

\* the match on get_log_dest() in Logger::log
write_output(p, con, strs, output) ==
    LET d == p.log_dest
        unchanged == [params |-> p, console |-> con, streams |-> strs, fallback |-> FALSE]
    IN  CASE d = "Stderr" -> [unchanged EXCEPT !.console = write_console(con, "stderr", output)]
          [] d = "Stdout" -> [unchanged EXCEPT !.console = write_console(con, "stdout", output)]
          [] d = "Stream" ->
                IF IsSome(p.log_stream)
                THEN [unchanged EXCEPT !.streams = write_stream(strs, Unwrap(p.log_stream), output)]
                ELSE [unchanged EXCEPT !.console = write_console(con, "stderr", output),
                                       !.fallback = TRUE]
          [] d = "StreamStdout" ->
                [unchanged EXCEPT
                    !.streams = IF IsSome(p.log_stream)
                                THEN write_stream(strs, Unwrap(p.log_stream), output) ELSE @,
                    !.console = write_console(con, "stdout", output)]
          [] d = "StreamStderr" ->
                [unchanged EXCEPT
                    !.streams = IF IsSome(p.log_stream)
                                THEN write_stream(strs, Unwrap(p.log_stream), output) ELSE @,
                    !.console = write_console(con, "stderr", output)]
          [] d = "Buffer" ->
                IF IsSome(p.log_buffer)
                THEN [unchanged EXCEPT !.params = write_buffer(p, output)]
                ELSE [unchanged EXCEPT !.console = write_console(con, "stderr", output),
                                       !.fallback = TRUE]
          [] d = "BufferStdout" ->
                [unchanged EXCEPT
                    !.params = IF IsSome(p.log_buffer) THEN write_buffer(p, output) ELSE @,
                    !.console = write_console(con, "stdout", output)]
          [] d = "BufferStderr" ->
                [unchanged EXCEPT
                    !.params = IF IsSome(p.log_buffer) THEN write_buffer(p, output) ELSE @,
                    !.console = write_console(con, "stderr", output)]

\* Logger::log(record): the state it leaves, whether the record was emitted,
\* and the formatted line
log(p, exe, con, strs, rec) ==
    LET nt == mod_name_tag(exe, rec.module_path)
        level == effective_level(p, nt[2])
        output == format_output(p, rec, nt[1])
    IN  IF passes(rec.level, level)
        THEN [state |-> write_output(p, con, strs, output), emitted |-> TRUE,
              output |-> output, level |-> level]
        ELSE [state |-> [params |-> p, console |-> con, streams |-> strs, fallback |-> FALSE],
              emitted |-> FALSE, output |-> <<>>, level |-> level]

----------------------------------------------------------------------------
(* config.rs: LogConfigBuilder::from_file.  A configuration file is the     *)
(* outcome of reading and deserializing it and the keys it holds; every key *)
(* is an Option.  Strings are sequences of characters.                      *)

UpperCase == <<"A", "B", "C", "D", "E", "F", "G", "H", "I", "J", "K", "L", "M",
               "N", "O", "P", "Q", "R", "S", "T", "U", "V", "W", "X", "Y", "Z">>

LowerCase == <<"a", "b", "c", "d", "e", "f", "g", "h", "i", "j", "k", "l", "m",
               "n", "o", "p", "q", "r", "s", "t", "u", "v", "w", "x", "y", "z">>

to_ascii_lowercase(c) ==
    IF \E i \in 1..Len(UpperCase) : UpperCase[i] = c
    THEN LowerCase[CHOOSE i \in 1..Len(UpperCase) : UpperCase[i] = c]
    ELSE c

eq_ignore_ascii_case(a, b) ==
    /\ Len(a) = Len(b)
    /\ \A i \in 1..Len(a) : to_ascii_lowercase(a[i]) = to_ascii_lowercase(b[i])

\* log::Level::from_str: the names of the levels, compared without case
LEVEL_NAMES ==
    <<<<"E", "R", "R", "O", "R">>, <<"W", "A", "R", "N">>, <<"I", "N", "F", "O">>,
      <<"D", "E", "B", "U", "G">>, <<"T", "R", "A", "C", "E">>>>

Level_from_str(v) ==
    IF \E i \in 1..Len(LEVEL_NAMES) : eq_ignore_ascii_case(LEVEL_NAMES[i], v)
    THEN Some(CHOOSE i \in 1..Len(LEVEL_NAMES) : eq_ignore_ascii_case(LEVEL_NAMES[i], v))
    ELSE None

DEST_TX ==
    <<<<<<"s", "t", "d", "o", "u", "t">>, "Stdout">>,
      <<<<"s", "t", "d", "e", "r", "r">>, "Stderr">>,
      <<<<"s", "t", "r", "e", "a", "m">>, "Stream">>,
      <<<<"s", "t", "r", "e", "a", "m", "s", "t", "d", "o", "u", "t">>, "StreamStdout">>,
      <<<<"s", "t", "r", "e", "a", "m", "s", "t", "d", "e", "r", "r">>, "StreamStderr">>,
      <<<<"b", "u", "f", "f", "e", "r">>, "Buffer">>,
      <<<<"b", "u", "f", "f", "e", "r", "s", "t", "d", "o", "u", "t">>, "BufferStdout">>,
      <<<<"b", "u", "f", "f", "e", "r", "s", "t", "d", "e", "r", "r">>, "BufferStderr">>>>

\* from_str that compares the names with ==, case and all
LogDestination_from_str_exact(dest) ==
    IF \E pos \in 1..Len(DEST_TX) : DEST_TX[pos][1] = dest
    THEN Some(DEST_TX[CHOOSE pos \in 1..Len(DEST_TX) : DEST_TX[pos][1] = dest][2])
    ELSE None

\* LogDestination::from_str
LogDestination_from_str(dest) ==
    IF \E pos \in 1..Len(DEST_TX) : eq_ignore_ascii_case(DEST_TX[pos][1], dest)
    THEN Some(DEST_TX[CHOOSE pos \in 1..Len(DEST_TX) :
                         /\ eq_ignore_ascii_case(DEST_TX[pos][1], dest)
                         /\ \A q \in 1..(pos - 1) :
                               ~eq_ignore_ascii_case(DEST_TX[q][1], dest)][2])
    ELSE None

\* a builder that starts with color switched on
LogConfigBuilder_new_colored ==
    [default_level |-> DEFAULT_LOG_LEVEL, mod_level |-> <<>>, log_dest |-> DEFAULT_LOG_DEST,
     log_stream |-> None, color |-> TRUE, brief_info |-> FALSE]

\* LogConfigBuilder::new().inner
LogConfigBuilder_new ==
    [default_level |-> DEFAULT_LOG_LEVEL, mod_level |-> <<>>, log_dest |-> DEFAULT_LOG_DEST,
     log_stream |-> None, color |-> FALSE, brief_info |-> FALSE]

sDebug == <<"D", "e", "b", "u", "g">>

sWarn == <<"w", "a", "r", "n">>

sVerbose == <<"v", "e", "r", "b", "o", "s", "e">>

sBufferStdout == <<"B", "u", "f", "f", "e", "r", "S", "t", "d", "o", "u", "t">>

sStream == <<"s", "t", "r", "e", "a", "m">>

\* a file that holds none of the keys
EmptyFile ==
    [readable |-> TRUE, yaml |-> TRUE, default_level |-> None, mod_level |-> None,
     log_dest |-> None, log_stream |-> None, color |-> None, brief_info |-> None]

\* the levels of the mod_level key, each parsed with Level::from_str
ParsedModLevel(file) ==
    LET m == Unwrap(file.mod_level)
    IN  [k \in DOMAIN m |-> Level_from_str(m[k])]

\* the println! calls at the end of from_file
from_file_printed(file) ==
    <<"from_file: checking no_mod">>
    \o (IF IsSome(file.brief_info) THEN <<"from_file: setting no_mod">> ELSE <<>>)

\* LogConfigBuilder::from_file(filename).build(): [ok, config, printed] or
\* [ok, err, printed].  The log_dest key is parsed and checked against
\* log_stream, and is not stored in the builder.
from_file(file) ==
    LET b0 == LogConfigBuilder_new
        b1 == IF IsSome(file.default_level)
              THEN [b0 EXCEPT !.default_level = Unwrap(Level_from_str(Unwrap(file.default_level)))]
              ELSE b0
        b2 == IF IsSome(file.mod_level)
              THEN [b1 EXCEPT !.mod_level =
                       [k \in DOMAIN ParsedModLevel(file) |-> Unwrap(ParsedModLevel(file)[k])]]
              ELSE b1
        dest == LogDestination_from_str(Unwrap(file.log_dest))
        b3 == IF IsSome(file.log_dest) /\ is_stream_dest(Unwrap(dest))
              THEN [b2 EXCEPT !.log_stream = file.log_stream]
              ELSE b2
        b4 == IF IsSome(file.color) THEN [b3 EXCEPT !.color = Unwrap(file.color)] ELSE b3
        b5 == IF IsSome(file.brief_info)
              THEN [b4 EXCEPT !.brief_info = Unwrap(file.brief_info)] ELSE b4
        err(kind) == [ok |-> FALSE, err |-> kind, printed |-> <<>>]
    IN  IF ~file.readable THEN err("Upstream")
        ELSE IF ~file.yaml THEN err("Upstream")
        ELSE IF IsSome(file.default_level) /\ Level_from_str(Unwrap(file.default_level)) = None
        THEN err("InvParam")
        ELSE IF IsSome(file.mod_level)
                /\ \E k \in DOMAIN ParsedModLevel(file) : ParsedModLevel(file)[k] = None
        THEN err("InvParam")
        ELSE IF IsSome(file.log_dest) /\ dest = None THEN err("InvParam")
        ELSE IF IsSome(file.log_dest) /\ is_stream_dest(Unwrap(dest)) /\ file.log_stream = None
        THEN err("InvParam")
        ELSE [ok |-> TRUE, config |-> b5, printed |-> from_file_printed(file)]

----------------------------------------------------------------------------
(* The public operations of Logger, each on the state it runs in:           *)
(* w = [params, gate, console, streams].  Every operation below is the     *)
(* part of the function that follows its call of Logger::new().            *)

World == [params |-> params, gate |-> gate, console |-> console, streams |-> streams,
          flushed |-> <<>>]

Logger_set_default_level(w, log_level) ==
    LET last_max_level == w.params.max_level
        q == set_default_level(w.params, log_level)
    IN  [w EXCEPT !.params = q,
                  !.gate = IF last_max_level # q.max_level
                           THEN to_level_filter(q.max_level) ELSE @]

Logger_set_mod_level(w, module, log_level) ==
    LET last_max_level == w.params.max_level
        q == set_mod_level(w.params, module, log_level)
    IN  [w EXCEPT !.params = q,
                  !.gate = IF last_max_level # q.max_level
                           THEN to_level_filter(q.max_level) ELSE @]

\* Log::flush of Logger
Logger_flush(w) == [w EXCEPT !.flushed = flush(w.params, @)]

\* a stream object that nothing was written to
NewStream == <<>>

\* Logger::get_buffer
Logger_get_buffer(w) ==
    LET r == retrieve_log_buffer(w.params)
    IN  [w |-> [w EXCEPT !.params = r.params], ret |-> r.ret]

\* LoggerParams::set_log_dest that flushes after the switch
params_set_log_dest_late(w, dest, stream) ==
    LET r == set_log_dest(w.params, dest, stream)
        w1 == [w EXCEPT !.params = r.params]
    IN  [w |-> [w1 EXCEPT !.flushed = flush(w1.params, @)], ret |-> r.ret]

\* LoggerParams::set_log_dest as a whole: self.flush(), then the switch
params_set_log_dest(w, dest, stream) ==
    LET w1 == [w EXCEPT !.flushed = flush(w.params, @)]
        r == set_log_dest(w1.params, dest, stream)
    IN  [w |-> [w1 EXCEPT !.params = r.params], ret |-> r.ret]

\* Logger::set_log_dest(dest, stream) once it holds the lock for the second
\* time: has_stream tells whether the caller passed Some(stream); the stream
\* passed is a new object, followed from here on when it gets attached
\* (it is dropped unused when dest is not stream-class)
Logger_set_log_dest_locked(w, dest, has_stream) ==
    LET w1 == [w EXCEPT !.streams = IF has_stream /\ is_stream_dest(dest)
                                    THEN Append(@, NewStream) ELSE @]
    IN  params_set_log_dest(w1, dest, IF has_stream THEN Some(Len(w1.streams)) ELSE None)

\* Logger::set_log_dest: logger.flush(), then the switch
Logger_set_log_dest(w, dest, has_stream) ==
    Logger_set_log_dest_locked(Logger_flush(w), dest, has_stream)

\* the destination Logger::set_log_file derives from its argument
log_file_dest(log_dest) ==
    IF is_stdout(log_dest) THEN "StreamStdout"
    ELSE IF is_stderr(log_dest) THEN "StreamStderr"
    ELSE "Stream"

\* Logger::set_log_file once the file is created and the lock is held for
\* the second time: write_ok and flush_ok are the outcomes of
\* stream.write_all and stream.flush
Logger_set_log_file_locked(w, log_dest, write_ok, flush_ok) ==
    LET dest == log_file_dest(log_dest)
        w1 == [w EXCEPT !.streams = Append(@, NewStream)]
        id == Len(w1.streams)
        r == retrieve_log_buffer(w1.params)
        w2 == [w1 EXCEPT !.params = r.params]
        w3 == [w2 EXCEPT !.streams = write_stream(@, id, Unwrap(r.ret))]
        w4 == [w3 EXCEPT !.flushed = Append(@, id)]
    IN  IF IsSome(r.ret)
        THEN IF ~write_ok THEN [w |-> w2, ret |-> "Upstream"]
             ELSE IF ~flush_ok THEN [w |-> w3, ret |-> "Upstream"]
             ELSE params_set_log_dest(w4, dest, Some(id))
        ELSE params_set_log_dest(w2, dest, Some(id))

\* Logger::set_log_file: create_ok is the outcome of File::create
Logger_set_log_file(w, log_dest, create_ok, write_ok, flush_ok) ==
    IF ~create_ok THEN [w |-> w, ret |-> "Upstream"]
    ELSE Logger_set_log_file_locked(Logger_flush(w), log_dest, write_ok, flush_ok)

\* Logger::int_set_log_config: open_ok is the outcome of opening log_stream
int_set_log_config(w, log_config, open_ok) ==
    LET last_max_level == w.params.max_level
        p1 == set_default_level(w.params, log_config.default_level)
        p2 == set_mod_config(p1, log_config.mod_level)
        w1 == [w EXCEPT !.params = p2,
                        !.gate = IF p2.max_level # last_max_level
                                 THEN to_level_filter(p2.max_level) ELSE @]
        cfg_log_dest == log_config.log_dest
        stream_log == is_stream_dest(cfg_log_dest)
        w2 == [w1 EXCEPT !.streams = Append(@, NewStream)]
        r == IF stream_log
             THEN params_set_log_dest(w2, cfg_log_dest, Some(Len(w2.streams)))
             ELSE params_set_log_dest(w1, cfg_log_dest, None)
        decorate(x) == [x EXCEPT !.params =
                            set_brief_info(set_color(@, log_config.color),
                                           log_config.brief_info)]
    IN  IF cfg_log_dest # w1.params.log_dest \/ stream_log
        THEN IF stream_log /\ log_config.log_stream = None
             THEN [w |-> w1, ret |-> "InvParam"]
             ELSE IF stream_log /\ ~open_ok THEN [w |-> w1, ret |-> "Upstream"]
             ELSE IF r.ret # "Ok" THEN r
             ELSE [w |-> decorate(r.w), ret |-> "Ok"]
        ELSE [w |-> decorate(w1), ret |-> "Ok"]

\* Logger::log on the state it runs in
Logger_log(w, exe, rec) ==
    LET r == log(w.params, exe, w.console, w.streams, rec)
    IN  [w |-> [w EXCEPT !.params = r.state.params,
                         !.console = r.state.console,
                         !.streams = r.state.streams],
         emitted |-> r.emitted, output |-> r.output, level |-> r.level,
         fallback |-> r.state.fallback]

\* Logger::log with the outcomes io of its write calls: it returns (), the
\* unit value, whatever the writes returned
Logger_log_io(w, exe, rec, io) ==
    LET nt == mod_name_tag(exe, rec.module_path)
        level == effective_level(w.params, nt[2])
        output == format_output(w.params, rec, nt[1])
        r == write_output_io(w.params, w.console, w.streams, output, io)
    IN  IF passes(rec.level, level)
        THEN [w |-> [w EXCEPT !.params = r.params, !.console = r.console,
                              !.streams = r.streams],
              emitted |-> TRUE, output |-> output, level |-> level,
              fallback |-> r.fallback, res |-> r.res, ret |-> "unit"]
        ELSE [w |-> w, emitted |-> FALSE, output |-> <<>>, level |-> level,
              fallback |-> FALSE, res |-> "Ok", ret |-> "unit"]

----------------------------------------------------------------------------
(* The state after the first Logger::new() of a process without LOG_CONFIG: *)
(* LoggerParams::new(DEFAULT_LOG_LEVEL), initialised, registered with the  *)
(* facade, gate set from max_level.                                        *)

ExeNames == {None, Some(pA)}

NoTrip == [phase |-> "none", snap |-> <<>>]

LkIdle == [pc |-> "idle", path |-> <<>>, module |-> <<>>, ret |-> None, iters |-> 0]

Threads == {1, 2}

NoCall == [op |-> "none", arg |-> <<>>]

\* logger: the singleton the Logger value held by the thread refers to;
\* held: the critical section the thread holds the MutexGuard of, "" for none
ThIdle == [t \in Threads |->
              [pc |-> "idle", call |-> NoCall, calls |-> 0, logger |-> 0, held |-> ""]]

InitReady ==
    /\ params = [LoggerParams_new(DEFAULT_LOG_LEVEL) EXCEPT !.initialised = TRUE]
    /\ gate = to_level_filter(DEFAULT_LOG_LEVEL)
    /\ registered = 1
    /\ singletons = 1
    /\ exe_name \in ExeNames
    /\ console = [stdout |-> <<>>, stderr |-> <<>>]
    /\ streams = <<>>
    /\ flushed = <<>>
    /\ nrec = 0
    /\ last = [op |-> "new"]
    /\ pending = <<>>
    /\ trip = NoTrip
    /\ lk = LkIdle
    /\ th = ThIdle

Apply(w) ==
    /\ flushed' = w.flushed
    /\ params' = w.params
    /\ gate' = w.gate
    /\ console' = w.console
    /\ streams' = w.streams

\* the round trip buffer-class -> stream-class -> buffer-class -> get_buffer,
\* made with set_log_dest and without retrieving in between
TripAfter(op, ret, p, q) ==
    IF op = "set_log_dest" /\ ret = "Ok" /\ is_buffer_dest(p.log_dest)
       /\ is_stream_dest(q.log_dest)
    THEN [phase |-> "stream",
          snap |-> IF IsSome(p.log_buffer) THEN Unwrap(p.log_buffer) ELSE <<>>]
    ELSE IF trip.phase = "stream" /\ op \in {"log", "flush"} THEN trip
    ELSE IF trip.phase = "stream" /\ op = "set_log_dest"
            /\ (ret # "Ok" \/ is_stream_dest(q.log_dest)) THEN trip
    ELSE IF trip.phase = "stream" /\ op = "set_log_dest" /\ is_buffer_dest(q.log_dest)
    THEN [trip EXCEPT !.phase = "back"]
    ELSE IF trip.phase = "back" /\ op = "get_buffer" THEN [trip EXCEPT !.phase = "got"]
    ELSE NoTrip

Frame == UNCHANGED <<exe_name, lk, th, registered, singletons>>

SetDefaultLevel(log_level) ==
    /\ Apply(Logger_set_default_level(World, log_level))
    /\ last' = [op |-> "set_default_level"]
    /\ trip' = TripAfter("set_default_level", "Ok", params, params')
    /\ UNCHANGED <<nrec, pending>>
    /\ Frame

SetModLevel(module, log_level) ==
    /\ Apply(Logger_set_mod_level(World, module, log_level))
    /\ last' = [op |-> "set_mod_level",
                lowered |-> /\ module \in DOMAIN params.mod_level
                            /\ params.mod_level[module] = params.max_level
                            /\ log_level < params.max_level]
    /\ trip' = TripAfter("set_mod_level", "Ok", params, params')
    /\ UNCHANGED <<nrec, pending>>
    /\ Frame

SetLogConfig(log_config, open_ok) ==
    /\ is_stream_dest(log_config.log_dest) /\ IsSome(log_config.log_stream) /\ open_ok
          => Len(streams) < MaxStreams
    /\ LET r == int_set_log_config(World, log_config, open_ok)
       IN  /\ Apply(r.w)
           /\ last' = [op |-> "set_log_config", ret |-> r.ret]
           /\ trip' = TripAfter("set_log_config", r.ret, params, params')
           /\ pending' = IF r.w.params.log_buffer = None THEN <<>> ELSE pending
    /\ UNCHANGED nrec
    /\ Frame

SetLogDest(dest, has_stream) ==
    /\ has_stream /\ is_stream_dest(dest) => Len(streams) < MaxStreams
    /\ LET r == Logger_set_log_dest(World, dest, has_stream)
       IN  /\ Apply(r.w)
           /\ last' = [op |-> "set_log_dest", ret |-> r.ret,
                       no_handle |-> is_stream_dest(dest) /\ ~has_stream]
           /\ trip' = TripAfter("set_log_dest", r.ret, params, params')
           /\ pending' = IF r.w.params.log_buffer = None THEN <<>> ELSE pending
    /\ UNCHANGED nrec
    /\ Frame

SetLogFile(log_dest, create_ok, write_ok, flush_ok) ==
    /\ create_ok => Len(streams) < MaxStreams
    /\ LET r == Logger_set_log_file(World, log_dest, create_ok, write_ok, flush_ok)
       IN  /\ Apply(r.w)
           /\ last' = [op |-> "set_log_file", ret |-> r.ret]
           /\ trip' = TripAfter("set_log_file", r.ret, params, params')
           /\ pending' = IF create_ok THEN <<>> ELSE pending
    /\ UNCHANGED nrec
    /\ Frame

GetBuffer ==
    /\ LET r == Logger_get_buffer(World)
       IN  /\ Apply(r.w)
           /\ last' = [op |-> "get_buffer", ret |-> r.ret]
           /\ trip' = TripAfter("get_buffer", "Ok", params, params')
    /\ pending' = <<>>
    /\ UNCHANGED nrec
    /\ Frame

Flush ==
    /\ Apply(Logger_flush(World))
    /\ last' = [op |-> "flush"]
    /\ trip' = TripAfter("flush", "Ok", params, params')
    /\ UNCHANGED <<nrec, pending>>
    /\ Frame

Log(rec, max) ==
    /\ nrec < max
    /\ nrec' = nrec + 1
    /\ LET r == Logger_log(World, exe_name, rec)
       IN  /\ Apply(r.w)
           /\ last' = [op |-> "log", rec |-> rec, emitted |-> r.emitted,
                       level |-> r.level, fallback |-> r.fallback]
           /\ pending' = IF r.emitted /\ is_buffer_dest(params.log_dest)
                         THEN pending \o r.output ELSE pending
    /\ trip' = TripAfter("log", "Ok", params, params')
    /\ Frame

\* Logger::log of a record whose write calls have the outcomes io
LogIo(rec, io, max) ==
    /\ nrec < max
    /\ nrec' = nrec + 1
    /\ LET r == Logger_log_io(World, exe_name, rec, io)
       IN  /\ Apply(r.w)
           /\ last' = [op |-> "log", rec |-> rec, emitted |-> r.emitted,
                       level |-> r.level, fallback |-> r.fallback, io |-> io,
                       res |-> r.res, ret |-> r.ret]
           /\ pending' = IF r.emitted /\ is_buffer_dest(params.log_dest)
                         THEN pending \o r.output ELSE pending
    /\ trip' = TripAfter("log", "Ok", params, params')
    /\ Frame

SetBriefInfo(val) ==
    /\ Apply([World EXCEPT !.params = set_brief_info(@, val)])
    /\ last' = [op |-> "set_brief_info"]
    /\ trip' = TripAfter("set_brief_info", "Ok", params, params')
    /\ UNCHANGED <<nrec, pending>>
    /\ Frame

\* Logger::set_color
SetColor(color) ==
    /\ Apply([World EXCEPT !.params = set_color(@, color)])
    /\ last' = [op |-> "set_color"]
    /\ trip' = TripAfter("set_color", "Ok", params, params')
    /\ UNCHANGED <<nrec, pending>>
    /\ Frame

\* LogConfigBuilder::from_file(file) and, when it succeeds,
\* Logger::set_log_config(builder.build()); the files applied are limited
\* through the lines from_file has printed
ApplyFile(file) ==
    /\ Len(console.stdout) < MaxFiles
    /\ LET f == from_file(file)
           w1 == [World EXCEPT !.console = write_console(@, "stdout", f.printed)]
           r == IF f.ok THEN int_set_log_config(w1, f.config, TRUE)
                ELSE [w |-> World, ret |-> f.err]
       IN  /\ Apply(r.w)
           /\ last' = [op |-> "apply_file", ret |-> r.ret, file |-> file]
           /\ trip' = TripAfter("set_log_config", r.ret, params, params')
           /\ pending' = IF r.w.params.log_buffer = None THEN <<>> ELSE pending
    /\ UNCHANGED nrec
    /\ Frame

----------------------------------------------------------------------------------------------------------------------------------------
(* Spec: the level table under set_default_level, set_mod_level and        *)
(* set_log_config (set_mod_config).                                        *)

LevelKeys == {pAB, pB}

CfgModLevels == {<<>>, (pAB :> Debug), (pAB :> Error) @@ (pB :> Warn)}

LevelConfigs == [default_level : Levels, mod_level : CfgModLevels,
                 log_dest : {DEFAULT_LOG_DEST}, log_stream : {None},
                 color : {FALSE}, brief_info : {FALSE}]

Init == InitReady

Next ==
    \/ \E level \in Levels : SetDefaultLevel(level)
    \/ \E module \in LevelKeys, level \in Levels : SetModLevel(module, level)
    \/ \E cfg \in LevelConfigs : SetLogConfig(cfg, TRUE)

Spec == Init /\ [][Next]_vars

----------------------------------------------------------------------------
(* SpecEmit: records passed to Logger::log under changing levels.          *)

Args == {<<"m">>}

EmitRecords == [level : Levels, module_path : {Some(pp) : pp \in {pAB, pB, pZ}} \cup {None},
                args : Args]

EmitModLevels == {Warn, Debug}

NextEmit ==
    \/ \E level \in Levels : SetDefaultLevel(level)
    \/ \E module \in LevelKeys, level \in EmitModLevels : SetModLevel(module, level)
    \/ \E rec \in EmitRecords : Log(rec, MaxEmit)

SpecEmit == Init /\ [][NextEmit]_vars

----------------------------------------------------------------------------
(* SpecSink: destinations, streams and the buffer under set_log_dest,      *)
(* set_log_file, set_log_config, get_buffer, flush and emitted records.    *)

\* the n-th record passed to Logger::log carries the message n
SinkRecord(n) == [level |-> Info, module_path |-> Some(pZ), args |-> <<ToString(n)>>]

LogFile == <<"f">>

SinkConfig(dest, stream) ==
    [default_level |-> DEFAULT_LOG_LEVEL, mod_level |-> <<>>, log_dest |-> dest,
     log_stream |-> stream, color |-> FALSE, brief_info |-> FALSE]

\* configurations and the outcome of opening their log_stream
SinkConfigs == {<<SinkConfig("Stdout", None), TRUE>>,
                <<SinkConfig("BufferStderr", None), TRUE>>,
                <<SinkConfig("Stream", Some(LogFile)), TRUE>>,
                <<SinkConfig("Stream", Some(LogFile)), FALSE>>}

\* the calls of set_log_dest: a destination and whether a stream is passed
\* (a stream passed with a destination that is not stream-class is dropped)
SinkDests == {<<d, FALSE>> : d \in {"Stdout", "Stderr", "Stream", "Buffer", "BufferStderr"}}
             \cup {<<d, TRUE>> : d \in {"Stream", "StreamStdout"}}

\* File::create fails, write_all fails, flush fails, all succeed
FileOutcomes == {<<FALSE, TRUE, TRUE>>, <<TRUE, FALSE, TRUE>>, <<TRUE, TRUE, FALSE>>,
                 <<TRUE, TRUE, TRUE>>}

InitSink == InitReady /\ exe_name = None

NextSink ==
    \/ \E d \in SinkDests : SetLogDest(d[1], d[2])
    \/ \E dest \in {"Stdout"}, io \in FileOutcomes :
          SetLogFile(dest, io[1], io[2], io[3])
    \/ \E cfg \in SinkConfigs : SetLogConfig(cfg[1], cfg[2])
    \/ GetBuffer
    \/ Flush
    \/ \E rec \in {SinkRecord(nrec + 1)} : Log(rec, MaxRecords)

SpecSink == InitSink /\ [][NextSink]_vars

----------------------------------------------------------------------------
(* SpecRoute: records emitted under each of the eight destinations.        *)

\* set_log_dest to every destination, with a stream for the stream-class ones
RouteDests == {<<d, is_stream_dest(d)>> : d \in LogDestination}

NextRoute ==
    \/ \E d \in RouteDests : SetLogDest(d[1], d[2])
    \/ \E rec \in {SinkRecord(nrec + 1)} : Log(rec, MaxRecords)

SpecRoute == InitSink /\ [][NextRoute]_vars

----------------------------------------------------------------------------
(* SpecFile: configuration files applied to a logger whose settings were   *)
(* changed through the API.                                                *)

\* the files applied: no key at all, one key each, a level that does not
\* parse, a stream-class log_dest without log_stream, and an unreadable file
ConfigFiles ==
    {EmptyFile,
     [EmptyFile EXCEPT !.default_level = Some(sDebug)],
     [EmptyFile EXCEPT !.color = Some(TRUE)],
     [EmptyFile EXCEPT !.mod_level = Some(pAB :> sWarn)],
     [EmptyFile EXCEPT !.log_dest = Some(sBufferStdout)],
     [EmptyFile EXCEPT !.default_level = Some(sVerbose), !.color = Some(TRUE)],
     [EmptyFile EXCEPT !.log_dest = Some(sStream)],
     [EmptyFile EXCEPT !.readable = FALSE]}

\* a configuration built with LogConfigBuilder::set_default_level,
\* set_mod_level and set_log_dest(Stream, Some(path)), and the outcome of
\* opening its log_stream
BuiltConfigs ==
    {<<[default_level |-> Debug, mod_level |-> (pAB :> Trace), log_dest |-> "Stream",
        log_stream |-> Some(LogFile), color |-> FALSE, brief_info |-> FALSE], open_ok>> :
        open_ok \in BOOLEAN}

NextFile ==
    \/ \E cfg \in BuiltConfigs : SetLogConfig(cfg[1], cfg[2])
    \/ \E level \in {Warn, Trace} : SetDefaultLevel(level)
    \/ \E module \in {pB}, level \in {Error, Debug} : SetModLevel(module, level)
    \/ \E color \in BOOLEAN : SetColor(color)
    \/ \E dest \in {"Buffer", "Stdout"} : SetLogDest(dest, FALSE)
    \/ \E file \in ConfigFiles : ApplyFile(file)

SpecFile == InitSink /\ [][NextFile]_vars

----------------------------------------------------------------------------
(* SpecConc: threads calling the public mutators, from the first use of    *)
(* the logger on.  Every step is one critical section of the mutex around  *)
(* LoggerParams, or one call of the log facade.                            *)

ConcConfig(level, dest, stream) ==
    [default_level |-> level, mod_level |-> (pB :> Warn), log_dest |-> dest,
     log_stream |-> stream, color |-> TRUE, brief_info |-> FALSE]

\* the calls made by the threads
ConcCalls ==
    {[op |-> "set_default_level", arg |-> <<level>>] : level \in {Info, Debug}}
    \cup {[op |-> "set_mod_level", arg |-> <<pB, Trace>>],
          [op |-> "set_log_config", arg |-> <<ConcConfig(Error, "Stderr", None), TRUE>>],
          [op |-> "set_log_config", arg |-> <<ConcConfig(Trace, "BufferStderr", None), TRUE>>],
          [op |-> "set_log_dest", arg |-> <<"Buffer", FALSE>>],
          [op |-> "set_log_dest", arg |-> <<"Stream", FALSE>>],
          [op |-> "set_color", arg |-> <<TRUE>>],
          [op |-> "set_timestamp", arg |-> <<FALSE>>]}

\* the files LOG_CONFIG may name: unreadable, not YAML, with a level that
\* does not parse, with a stream-class log_dest and no log_stream, and two
\* files that from_file accepts
EnvFiles ==
    {[EmptyFile EXCEPT !.readable = FALSE],
     [EmptyFile EXCEPT !.yaml = FALSE],
     [EmptyFile EXCEPT !.default_level = Some(sVerbose)],
     [EmptyFile EXCEPT !.log_dest = Some(sStream)],
     [EmptyFile EXCEPT !.default_level = Some(sDebug), !.mod_level = Some(pB :> sWarn),
                       !.color = Some(TRUE)],
     [EmptyFile EXCEPT !.log_dest = Some(sStream), !.log_stream = Some(LogFile)]}

\* what env::var("LOG_CONFIG") leads to in Logger::new: not set, or a file
EnvConfigs ==
    {[kind |-> "unset", file |-> EmptyFile]}
    \cup {[kind |-> "file", file |-> file] : file \in EnvFiles}

InitConc ==
    /\ params = LoggerParams_new(DEFAULT_LOG_LEVEL)
    /\ gate = Off
    /\ registered = 0
    /\ singletons = 0
    /\ exe_name = None
    /\ console = [stdout |-> <<>>, stderr |-> <<>>]
    /\ streams = <<>>
    /\ flushed = <<>>
    /\ nrec = 0
    /\ last = [op |-> "none"]
    /\ pending = <<>>
    /\ trip = NoTrip
    /\ lk = LkIdle
    /\ th = ThIdle

WorldNow == [World EXCEPT !.flushed = flushed]

ConcFrame == UNCHANGED <<exe_name, nrec, pending, trip, lk>>

\* the operations that call logger.flush() before they take the lock again
FlushesFirst(op) == op \in {"set_log_dest", "set_log_file", "flush"}

\* where a call continues when Logger::new() has returned
AfterNew(call) == IF FlushesFirst(call.op) THEN "flush" ELSE "body"

\* a thread calls a public operation, which starts with Logger::new()
Call(t, call) ==
    /\ th[t].pc = "idle"
    /\ th[t].calls < MaxCalls
    /\ th' = [th EXCEPT ![t].pc = "once", ![t].call = call]
    /\ UNCHANGED <<params, gate, console, streams, flushed, last, registered, singletons>>
    /\ ConcFrame

\* Logger::new with the singleton constructed on every call
NewOnce_each(t) ==
    /\ th[t].pc = "once"
    /\ params' = LoggerParams_new(DEFAULT_LOG_LEVEL) /\ singletons' = singletons + 1
    /\ th' = [th EXCEPT ![t].pc = "init", ![t].logger = singletons']
    /\ UNCHANGED <<gate, console, streams, flushed, last, registered>>
    /\ ConcFrame

\* Logger::new: ONCE.call_once constructs the singleton on the first call,
\* and the caller gets a clone of the Logger that LOGGER points to
NewOnce(t) ==
    /\ th[t].pc = "once"
    /\ IF singletons = 0
       THEN params' = LoggerParams_new(DEFAULT_LOG_LEVEL) /\ singletons' = 1
       ELSE UNCHANGED <<params, singletons>>
    /\ th' = [th EXCEPT ![t].pc = "init", ![t].logger = singletons']
    /\ UNCHANGED <<gate, console, streams, flushed, last, registered>>
    /\ ConcFrame

\* initialised that keeps the MutexGuard for the rest of Logger::new
NewInitialised_kept(t) ==
    /\ th[t].pc = "init"
    /\ LET r == initialised(params)
       IN  /\ params' = r.params
           /\ th' = [th EXCEPT ![t].pc = IF r.ret THEN AfterNew(th[t].call) ELSE "cfg"]
    /\ UNCHANGED <<gate, console, streams, flushed, last, registered, singletons>>
    /\ ConcFrame

\* Logger::new: logger.inner.lock().unwrap().initialised(); the guard is a
\* temporary of the if condition and is dropped before the block is entered
NewInitialised(t) ==
    /\ th[t].pc = "init"
    /\ LET r == initialised(params)
       IN  /\ params' = r.params
           /\ th' = [th EXCEPT ![t].pc = IF r.ret THEN AfterNew(th[t].call) ELSE "cfg",
                               ![t].held = ""]
    /\ UNCHANGED <<gate, console, streams, flushed, last, registered, singletons>>
    /\ ConcFrame

\* the eprintln! of Logger::new for a configuration that failed
Report(kind) ==
    IF kind = "read_failed" THEN <<"Failed to read log config from file">>
    ELSE <<"Failed to apply log config from file">>

\* what the LOG_CONFIG block of Logger::new does: the state it leaves and
\* how the configuration fared
load_config(w, env) ==
    LET f == from_file(env.file)
        w1 == [w EXCEPT !.console = write_console(@, "stdout", f.printed)]
        r == int_set_log_config(w1, f.config, TRUE)
        report(x, kind) == [x EXCEPT !.console = write_console(@, "stderr", Report(kind))]
    IN  IF env.kind = "unset" THEN [w |-> w, kind |-> "unset"]
        ELSE IF ~f.ok THEN [w |-> report(w, "read_failed"), kind |-> "read_failed"]
        ELSE IF r.ret # "Ok" THEN [w |-> report(r.w, "apply_failed"), kind |-> "apply_failed"]
        ELSE [w |-> r.w, kind |-> "applied"]

\* Logger::new that returns when the configuration failed
NewConfig_abort(t, env) ==
    /\ th[t].pc = "cfg"
    /\ LET r == load_config(WorldNow, env)
       IN  /\ Apply(r.w)
           /\ last' = [op |-> "log_config", kind |-> r.kind, thread |-> t]
           /\ th' = [th EXCEPT ![t].pc = IF r.kind \in {"read_failed", "apply_failed"}
                                          THEN AfterNew(th[t].call) ELSE "reg",
                               ![t].held = ""]
    /\ UNCHANGED <<registered, singletons>>
    /\ ConcFrame

\* Logger::new: the configuration named by LOG_CONFIG is read and applied
NewConfig(t, env) ==
    /\ th[t].pc = "cfg"
    /\ th' = [th EXCEPT ![t].pc = "reg", ![t].held = ""]
    /\ \E r \in {load_config(WorldNow, env)} :
           /\ Apply(r.w)
           /\ last' = [op |-> "log_config", kind |-> r.kind, thread |-> t]
    /\ UNCHANGED <<registered, singletons>>
    /\ ConcFrame

\* Logger::new: log::set_boxed_logger
NewRegister(t) ==
    /\ th[t].pc = "reg"
    /\ th' = [th EXCEPT ![t].pc = "gate"]
    /\ registered' = registered + 1
    /\ UNCHANGED <<params, gate, console, streams, flushed, last, singletons>>
    /\ ConcFrame

\* Logger::new: log::set_max_level(max_level) under the lock
NewGate(t) ==
    /\ th[t].pc = "gate"
    /\ th' = [th EXCEPT ![t].pc = AfterNew(th[t].call), ![t].held = ""]
    /\ gate' = to_level_filter(params.max_level)
    /\ UNCHANGED <<params, console, streams, flushed, last, registered, singletons>>
    /\ ConcFrame

\* logger.flush() of set_log_dest, set_log_file and flush
FlushStep(t) ==
    /\ th[t].pc = "flush"
    /\ th' = [th EXCEPT ![t].pc = "body", ![t].held = ""]
    /\ Apply(Logger_flush(WorldNow))
    /\ UNCHANGED <<last, registered, singletons>>
    /\ ConcFrame

\* the rest of a public operation, under the lock
Body(w, call) ==
    LET op == call.op
        arg == call.arg
        ok(x) == [w |-> x, ret |-> "Ok"]
    IN  CASE op = "set_default_level" -> ok(Logger_set_default_level(w, arg[1]))
          [] op = "set_mod_level" -> ok(Logger_set_mod_level(w, arg[1], arg[2]))
          [] op = "set_log_config" -> int_set_log_config(w, arg[1], arg[2])
          [] op = "set_log_dest" -> Logger_set_log_dest_locked(w, arg[1], arg[2])
          [] op = "set_log_file" -> Logger_set_log_file_locked(w, arg[1], arg[2], arg[3])
          [] op = "log" -> LET r == Logger_log(w, exe_name, arg[1])
                           IN  [w |-> r.w, ret |-> IF r.emitted THEN "Emitted" ELSE "Dropped"]
          [] op = "set_color" -> ok([w EXCEPT !.params = set_color(@, arg[1])])
          [] op = "set_timestamp" -> ok([w EXCEPT !.params = set_timestamp(@, arg[1])])
          [] op = "set_millis" -> ok([w EXCEPT !.params = set_millis(@, arg[1])])
          [] op = "set_brief_info" -> ok([w EXCEPT !.params = set_brief_info(@, arg[1])])

\* Logger::log that releases the lock between the write to the stream and
\* the write to the console
BodyStep_unlocked(t) ==
    LET rec == th[t].call.arg[1]
        line == format_output(params, rec, mod_name_tag(exe_name, rec.module_path)[1])
        split == /\ th[t].call.op = "log"
                 /\ is_stream_dest(params.log_dest) /\ IsSome(params.log_stream)
                 /\ passes(rec.level,
                           effective_level(params, mod_name_tag(exe_name, rec.module_path)[2]))
    IN  \/ /\ th[t].pc = "body" /\ split
           /\ streams' = write_stream(streams, Unwrap(params.log_stream), line)
           /\ th' = [th EXCEPT ![t].pc = "half"]
           /\ UNCHANGED <<params, gate, console, flushed, last, registered, singletons>>
           /\ ConcFrame
        \/ /\ th[t].pc = "half"
           /\ console' = IF is_stdout(params.log_dest)
                         THEN write_console(console, "stdout", line)
                         ELSE IF is_stderr(params.log_dest)
                         THEN write_console(console, "stderr", line)
                         ELSE console
           /\ last' = [op |-> "log", ret |-> "Emitted", thread |-> t]
           /\ th' = [th EXCEPT ![t].pc = "idle", ![t].calls = @ + 1, ![t].logger = 0,
                               ![t].held = ""]
           /\ UNCHANGED <<params, gate, streams, flushed, registered, singletons>>
           /\ ConcFrame
        \/ /\ th[t].pc = "body" /\ ~split
           /\ LET r == Body(WorldNow, th[t].call)
              IN  /\ Apply(r.w)
                  /\ last' = [op |-> th[t].call.op, ret |-> r.ret, thread |-> t]
           /\ th' = [th EXCEPT ![t].pc = "idle", ![t].calls = @ + 1, ![t].logger = 0,
                               ![t].held = ""]
           /\ UNCHANGED <<registered, singletons>>
           /\ ConcFrame

\* Logger::log that writes the line to the stream or buffer in two parts and
\* releases the lock between them
BodyStep_chunked(t) ==
    LET rec == th[t].call.arg[1]
        line == format_output(params, rec, mod_name_tag(exe_name, rec.module_path)[1])
        head == SubSeq(line, 1, Len(line) - 1)
        tail == SubSeq(line, Len(line), Len(line))
        split == /\ th[t].call.op = "log"
                 /\ \/ is_stream_dest(params.log_dest) /\ IsSome(params.log_stream)
                    \/ is_buffer_dest(params.log_dest) /\ IsSome(params.log_buffer)
                 /\ passes(rec.level,
                           effective_level(params, mod_name_tag(exe_name, rec.module_path)[2]))
        put(part) ==
            /\ streams' = IF is_stream_dest(params.log_dest) /\ IsSome(params.log_stream)
                          THEN write_stream(streams, Unwrap(params.log_stream), part)
                          ELSE streams
            /\ params' = IF is_buffer_dest(params.log_dest) /\ IsSome(params.log_buffer)
                         THEN write_buffer(params, part)
                         ELSE params
    IN  \/ /\ th[t].pc = "body" /\ split
           /\ put(head)
           /\ th' = [th EXCEPT ![t].pc = "half"]
           /\ UNCHANGED <<gate, console, flushed, last, registered, singletons>>
           /\ ConcFrame
        \/ /\ th[t].pc = "half"
           /\ put(tail)
           /\ console' = IF is_stdout(params.log_dest)
                         THEN write_console(console, "stdout", line)
                         ELSE IF is_stderr(params.log_dest)
                         THEN write_console(console, "stderr", line)
                         ELSE console
           /\ last' = [op |-> "log", ret |-> "Emitted", thread |-> t]
           /\ th' = [th EXCEPT ![t].pc = "idle", ![t].calls = @ + 1, ![t].logger = 0,
                               ![t].held = ""]
           /\ UNCHANGED <<gate, flushed, registered, singletons>>
           /\ ConcFrame
        \/ /\ th[t].pc = "body" /\ ~split
           /\ LET r == Body(WorldNow, th[t].call)
              IN  /\ Apply(r.w)
                  /\ last' = [op |-> th[t].call.op, ret |-> r.ret, thread |-> t]
           /\ th' = [th EXCEPT ![t].pc = "idle", ![t].calls = @ + 1, ![t].logger = 0,
                               ![t].held = ""]
           /\ UNCHANGED <<registered, singletons>>
           /\ ConcFrame

\* Logger::set_log_file that releases the lock between draining the buffer
\* into the file and attaching the file
BodyStep_released(t) ==
    LET call == th[t].call
        split == call.op = "set_log_file"
        r == retrieve_log_buffer(params)
    IN  \/ /\ th[t].pc = "body" /\ split
           /\ streams' = Append(streams, IF IsSome(r.ret) THEN Unwrap(r.ret) ELSE NewStream)
           /\ params' = r.params
           /\ th' = [th EXCEPT ![t].pc = "half", ![t].call.arg = Append(@, Len(streams'))]
           /\ UNCHANGED <<gate, console, flushed, last, registered, singletons>>
           /\ ConcFrame
        \/ /\ th[t].pc = "half"
           /\ LET a == params_set_log_dest(WorldNow, log_file_dest(call.arg[1]),
                                           Some(call.arg[Len(call.arg)]))
              IN  /\ Apply(a.w)
                  /\ last' = [op |-> call.op, ret |-> a.ret, thread |-> t]
           /\ th' = [th EXCEPT ![t].pc = "idle", ![t].calls = @ + 1, ![t].logger = 0,
                               ![t].held = ""]
           /\ UNCHANGED <<registered, singletons>>
           /\ ConcFrame
        \/ /\ th[t].pc = "body" /\ ~split
           /\ LET b == Body(WorldNow, call)
              IN  /\ Apply(b.w)
                  /\ last' = [op |-> call.op, ret |-> b.ret, thread |-> t]
           /\ th' = [th EXCEPT ![t].pc = "idle", ![t].calls = @ + 1, ![t].logger = 0,
                               ![t].held = ""]
           /\ UNCHANGED <<registered, singletons>>
           /\ ConcFrame

\* the operation takes the lock, does its work and returns
BodyStep(t) ==
    /\ th[t].pc = "body"
    /\ \E r \in {Body(WorldNow, th[t].call)} :
           /\ Apply(r.w)
           /\ last' = [op |-> th[t].call.op, ret |-> r.ret, thread |-> t]
    /\ th' = [th EXCEPT ![t].pc = "idle", ![t].calls = @ + 1, ![t].logger = 0,
                               ![t].held = ""]
    /\ UNCHANGED <<registered, singletons>>
    /\ ConcFrame

NextConc ==
    \/ \E t \in Threads, call \in ConcCalls : Call(t, call)
    \/ \E t \in Threads : NewOnce(t)
    \/ \E t \in Threads : NewInitialised(t)
    \/ \E t \in Threads, env \in EnvConfigs : NewConfig(t, env)
    \/ \E t \in Threads : NewRegister(t)
    \/ \E t \in Threads : NewGate(t)
    \/ \E t \in Threads : FlushStep(t)
    \/ \E t \in Threads : BodyStep(t)

SpecConc == InitConc /\ [][NextConc]_vars

----------------------------------------------------------------------------
(* SpecRace: threads emitting records while threads switch the destination, *)
(* on a logger that is initialised.  Logger::log is called by the log      *)
(* facade on the registered Logger, without Logger::new(), and holds the   *)
(* lock from the level lookup to the last write.                           *)

\* the records the threads emit: thread t logs the message t
RaceRecord(t, level) ==
    [level |-> level, module_path |-> Some(pZ), args |-> <<ToString(t)>>]

\* the destination switches made by the threads; set_log_file has created
\* its file when it calls Logger::new()
RaceCalls ==
    {[op |-> "set_log_dest", arg |-> <<"BufferStdout", FALSE>>],
     [op |-> "set_log_dest", arg |-> <<"StreamStderr", TRUE>>],
     [op |-> "set_log_file", arg |-> <<"Buffer", TRUE, TRUE>>]}

InitRace == InitReady /\ exe_name = None

\* a thread calls set_log_dest or set_log_file, which starts with Logger::new()
CallSwitch(t, call) ==
    /\ th[t].pc = "idle"
    /\ th[t].calls < MaxRace
    /\ th' = [th EXCEPT ![t].pc = "once", ![t].call = call]
    /\ UNCHANGED <<params, gate, console, streams, flushed, last, registered, singletons>>
    /\ ConcFrame

\* the facade passes a record of thread t to Logger::log
CallLog(t, level) ==
    /\ th[t].pc = "idle"
    /\ th[t].calls < MaxRace
    /\ th' = [th EXCEPT ![t].pc = "body",
                        ![t].call = [op |-> "log", arg |-> <<RaceRecord(t, level)>>],
                        ![t].logger = singletons]
    /\ UNCHANGED <<params, gate, console, streams, flushed, last, registered, singletons>>
    /\ ConcFrame

NextRace ==
    \/ \E t \in Threads, call \in RaceCalls : CallSwitch(t, call)
    \/ \E t \in Threads, level \in {Info, Debug} : CallLog(t, level)
    \/ \E t \in Threads : NewOnce(t)
    \/ \E t \in Threads : NewInitialised(t)
    \/ \E t \in Threads : FlushStep(t)
    \/ \E t \in Threads : BodyStep(t)

SpecRace == InitRace /\ [][NextRace]_vars

----------------------------------------------------------------------------
(* SpecLookup: get_mod_level, one loop iteration per step, on every        *)
(* override table over LookupKeys.                                         *)

LookupLevels == {Error, Warn, Debug}

LookupTables ==
    UNION {[keys -> LookupLevels] : keys \in SUBSET LookupKeys}

InitLookup ==
    /\ \E table \in LookupTables :
          params = recalculate_max_level(
                      [LoggerParams_new(DEFAULT_LOG_LEVEL) EXCEPT
                          !.initialised = TRUE, !.default_level = Error,
                          !.mod_level = table])
    /\ gate = to_level_filter(params.max_level)
    /\ registered = 1
    /\ singletons = 1
    /\ exe_name = None
    /\ console = [stdout |-> <<>>, stderr |-> <<>>]
    /\ streams = <<>>
    /\ flushed = <<>>
    /\ nrec = 0
    /\ last = [op |-> "new"]
    /\ pending = <<>>
    /\ trip = NoTrip
    /\ lk = LkIdle
    /\ th = ThIdle

LookupFrame ==
    UNCHANGED <<params, gate, exe_name, console, streams, flushed, nrec, last, pending,
                trip, th, registered, singletons>>

\* get_mod_level(module) is entered: mod_path = module
LookupCall(module) ==
    /\ lk.pc \in {"idle", "done"}
    /\ lk' = [pc |-> "loop", path |-> module, module |-> module, ret |-> None, iters |-> 0]
    /\ LookupFrame

\* one iteration of the loop
LookupIter ==
    /\ lk.pc = "loop"
    /\ LET it == get_mod_level_iter(params, lk.path)
       IN  lk' = IF it.ret
                 THEN [lk EXCEPT !.pc = "done", !.ret = it.value, !.iters = @ + 1]
                 ELSE [lk EXCEPT !.path = it.path, !.iters = @ + 1]
    /\ LookupFrame

NextLookup ==
    \/ \E module \in LookupPaths : LookupCall(module)
    \/ LookupIter

SpecLookup == InitLookup /\ [][NextLookup]_vars

\* the loop of get_mod_level goes on as long as it has not returned
SpecLookupFair == SpecLookup /\ WF_vars(LookupIter)

----------------------------------------------------------------------------
(* SpecParse: LogDestination::from_str on the canonical names in every     *)
(* mix of upper and lower case, and on strings that are no canonical name. *)

to_ascii_uppercase(c) ==
    IF \E i \in 1..Len(LowerCase) : LowerCase[i] = c
    THEN UpperCase[CHOOSE i \in 1..Len(LowerCase) : LowerCase[i] = c]
    ELSE c

\* name with the characters at the positions in upper written in upper case
Cased(name, upper) ==
    [i \in 1..Len(name) |-> IF i \in upper THEN to_ascii_uppercase(name[i]) ELSE name[i]]

\* the positions written in either case: all of a short name, the first and
\* last characters of the two words of a long one and one in between
CasePositions(name) == IF Len(name) <= 6 THEN 1..Len(name) ELSE {1, 6, 7, 10, 12}

CaseVariants(name) == {Cased(name, upper) : upper \in SUBSET CasePositions(name)}

\* a character outside ASCII: U+017F, which Unicode case folding maps to s
LongS == "U+017F"

\* strings next to a canonical name: cut, extended, padded, with a character
\* outside ASCII
NearMisses(name) ==
    {SubSeq(name, 1, Len(name) - 1), SubSeq(name, 2, Len(name)),
     name \o <<"x">>, name \o <<" ">>, <<" ">> \o name, name \o name,
     [name EXCEPT ![1] = IF @ = "s" THEN LongS ELSE "B"],
     [name EXCEPT ![Len(name)] = "_"]}

\* the strings from_str is called with
ParseInputs ==
    UNION {CaseVariants(DEST_TX[pos][1]) : pos \in 1..Len(DEST_TX)}
    \cup UNION {NearMisses(Cased(DEST_TX[pos][1], upper)) :
                   pos \in 1..Len(DEST_TX), upper \in {{}, {1}, 1..6}}
    \cup {<<>>, <<"f", "i", "l", "e">>, <<"s", "t", "d">>, <<"n", "o", "n", "e">>}

\* Result<LogDestination, Error> of from_str: the only error it constructs
\* is ErrorKind::InvParam
FromStrResult(dest) ==
    LET r == LogDestination_from_str(dest)
    IN  IF IsSome(r) THEN [ok |-> TRUE, value |-> Unwrap(r)]
        ELSE [ok |-> FALSE, err |-> "InvParam"]

\* the string from_str is going to be called with
InitParse ==
    /\ last \in {[op |-> "arg", dest |-> dest] : dest \in ParseInputs}
    /\ params = [LoggerParams_new(DEFAULT_LOG_LEVEL) EXCEPT !.initialised = TRUE]
    /\ gate = to_level_filter(DEFAULT_LOG_LEVEL)
    /\ registered = 1
    /\ singletons = 1
    /\ exe_name = None
    /\ console = [stdout |-> <<>>, stderr |-> <<>>]
    /\ streams = <<>>
    /\ flushed = <<>>
    /\ nrec = 0
    /\ pending = <<>>
    /\ trip = NoTrip
    /\ lk = LkIdle
    /\ th = ThIdle

\* LogDestination::from_str(dest)
FromStr ==
    /\ last.op = "arg"
    /\ last' = [op |-> "from_str", dest |-> last.dest, ret |-> FromStrResult(last.dest)]
    /\ UNCHANGED <<params, gate, console, streams, flushed, nrec, pending, trip>>
    /\ Frame

NextParse == FromStr

SpecParse == InitParse /\ [][NextParse]_vars

----------------------------------------------------------------------------
(* SpecFail: records emitted under each of the eight destinations while    *)
(* the writes to the stream and to the console succeed or fail.            *)

WriteOutcomes == [stream : BOOLEAN, console : BOOLEAN]

\* the records: one that passes the level check and one that does not
FailRecords(n) == {SinkRecord(n), [SinkRecord(n) EXCEPT !.level = Debug]}

NextFail ==
    \/ \E d \in RouteDests : SetLogDest(d[1], d[2])
    \/ \E rec \in FailRecords(nrec + 1), io \in WriteOutcomes : LogIo(rec, io, MaxRecords)

SpecFail == InitSink /\ [][NextFail]_vars

----------------------------------------------------------------------------
(* SpecDrain: threads emitting records while threads switch between the    *)
(* buffer and log files with set_log_dest and set_log_file.  Every record  *)
(* emitted after the first switch is copied to stdout, in emission order.  *)

\* the switches made by the threads; set_log_file has created its file when
\* it calls Logger::new(), and its write_all and flush succeed
DrainCalls ==
    {[op |-> "set_log_dest", arg |-> <<"BufferStdout", FALSE>>],
     [op |-> "set_log_file", arg |-> <<"Stdout", TRUE, TRUE>>]}

NextDrain ==
    \/ \E t \in Threads, call \in DrainCalls : CallSwitch(t, call)
    \/ \E t \in Threads : CallLog(t, Info)
    \/ \E t \in Threads : NewOnce(t)
    \/ \E t \in Threads : NewInitialised(t)
    \/ \E t \in Threads : FlushStep(t)
    \/ \E t \in Threads : BodyStep(t)

SpecDrain == InitRace /\ [][NextDrain]_vars

----------------------------------------------------------------------------
(* SpecLock: the mutex around LoggerParams, taken and released.  A thread  *)
(* takes the lock in a step of its own, where it waits while another       *)
(* thread holds it; the step that does the work of the critical section    *)
(* ends with the drop of the MutexGuard.                                   *)

\* the places where a public operation or Logger::log calls inner.lock()
LockPoints == {"init", "cfg", "gate", "flush", "body"}

\* the calls made by the threads
LockCalls ==
    {[op |-> "set_log_dest", arg |-> <<"Buffer", FALSE>>],
     [op |-> "set_log_file", arg |-> <<"Stream", TRUE, TRUE>>]}

\* what LOG_CONFIG leads to: not set, a file that is applied
LockEnvs ==
    {[kind |-> "unset", file |-> EmptyFile],
     [kind |-> "file", file |-> [EmptyFile EXCEPT !.color = Some(TRUE)]]}

\* the LOG_CONFIG block takes the lock, in int_set_log_config, when from_file
\* has returned a configuration
Locks(env) == env.kind = "file" /\ from_file(env.file).ok

\* inner.lock(): the thread gets the mutex when no thread holds it, itself
\* included (std::sync::Mutex is not reentrant)
Acquire(t) ==
    /\ th[t].pc \in LockPoints
    /\ \A u \in Threads : th[u].held = ""
    /\ th' = [th EXCEPT ![t].held = th[t].pc]
    /\ UNCHANGED <<params, gate, console, streams, flushed, last, registered, singletons>>
    /\ ConcFrame

\* the facade passes a record to Logger::log once the logger is registered
LockCallLog(t) == registered = 1 /\ CallLog(t, Info)

\* the steps of thread t inside a call
Progress(t) ==
    \/ NewOnce(t)
    \/ Acquire(t)
    \/ th[t].held = "init" /\ NewInitialised(t)
    \/ \E env \in LockEnvs :
          /\ th[t].held = IF Locks(env) THEN "cfg" ELSE ""
          /\ NewConfig(t, env)
    \/ NewRegister(t)
    \/ th[t].held = "gate" /\ NewGate(t)
    \/ th[t].held = "flush" /\ FlushStep(t)
    \/ th[t].held = "body" /\ BodyStep(t)

NextLock ==
    \/ \E t \in Threads, call \in LockCalls : Call(t, call)
    \/ \E t \in Threads : LockCallLog(t)
    \/ \E t \in Threads : Progress(t)

SpecLock == InitConc /\ [][NextLock]_vars

\* every thread that can take a step takes one eventually
SpecLockFair == SpecLock /\ \A t \in Threads : WF_vars(Progress(t))

----------------------------------------------------------------------------
(* SpecFormat: the lines written to stderr for records of every level,     *)
(* with and without module path, under set_brief_info, set_color and       *)
(* set_default_level.                                                      *)

FormatRecords ==
    [level : Levels, module_path : {Some(pA), Some(pAB), None}, args : Args]

NextFormat ==
    \/ \E val \in BOOLEAN : SetBriefInfo(val)
    \/ \E color \in BOOLEAN : SetColor(color)
    \/ \E level \in {Info, Trace} : SetDefaultLevel(level)
    \/ \E rec \in FormatRecords : Log(rec, MaxEmit)

SpecFormat == Init /\ [][NextFormat]_vars

----------------------------------------------------------------------------
(* Properties *)

MaxOf(S) == CHOOSE x \in S : \A y \in S : y <= x

Longest(S) == CHOOSE x \in S : \A y \in S : Len(y) <= Len(x)

\* P has the form Q :: R
HasSep(P) == \E i \in 1..Len(P) : IsPrefixAt(P, Sep, i)

\* P cut at its last "::" : the longest Q with P = Q :: R
Parent(P) == Longest({SubSeq(P, 1, i - 1) : i \in {j \in 1..Len(P) : IsPrefixAt(P, Sep, j)}})

\* P and its ancestors
RECURSIVE Ancestors(_)
Ancestors(P) == IF HasSep(P) THEN {P} \cup Ancestors(Parent(P)) ELSE {P}

\* the override of the longest path among P and its ancestors that has one
Resolve(table, P) ==
    LET with == Ancestors(P) \cap DOMAIN table
    IN  IF with = {} THEN None ELSE Some(table[Longest(with)])

ResolveOr(table, P, default) ==
    IF IsSome(Resolve(table, P)) THEN Unwrap(Resolve(table, P)) ELSE default

\* C1: after any sequence of set_default_level, set_mod_level and
\* set_mod_config calls, max_level is the most verbose level among the
\* default level and all override values.
C1_MaxLevelIsRecomputed ==
    params.max_level =
        MaxOf({params.default_level}
              \cup {params.mod_level[k] : k \in DOMAIN params.mod_level})

\* an override that held the maximum was replaced by a less verbose one
C1_Witness ==
    /\ last.op = "set_mod_level"
    /\ last.lowered
    /\ params.max_level > params.default_level
    /\ Cardinality(DOMAIN params.mod_level) = 2

\* C2: get_mod_level(P) returns the override of the longest path among P and
\* its ancestors that has an override, and None when none of them has one.
C2_LongestAncestorWins ==
    lk.pc = "done" =>
        /\ lk.ret = Resolve(params.mod_level, lk.module)
        /\ effective_level(params, lk.module)
              = ResolveOr(params.mod_level, lk.module, params.default_level)

\* overrides {a: Warn, a::b: Debug}, a::b::c resolved to Debug
C2_Witness ==
    /\ lk.pc = "done"
    /\ lk.module = pABC
    /\ params.mod_level = (pA :> Warn) @@ (pAB :> Debug)
    /\ lk.ret = Some(Debug)
    /\ get_mod_level(params, pAX) = Some(Warn)
    /\ get_mod_level(params, pZ) = None
    /\ effective_level(params, pZ) = Error

\* the sinks and the logger state a call of Logger::log may change
Observable == <<params, gate, console, streams>>

\* C3: Logger::log writes a record to the sinks iff the record's level is at
\* or below the effective level of its module; a more verbose record is
\* dropped without a sink write and without a change of the logger state.
C3_EmitIffAtOrBelow ==
    [][nrec' # nrec =>
          /\ last'.emitted <=> last'.rec.level <= last'.level
          /\ last'.rec.level <= last'.level
                <=> (console' # console \/ streams' # streams
                     \/ params'.log_buffer # params.log_buffer)
          /\ last'.rec.level > last'.level => Observable' = Observable]_vars

\* a Debug record under effective level Info was dropped
C3_Witness ==
    /\ last.op = "log"
    /\ last.rec.level = Debug
    /\ last.level = Info
    /\ ~last.emitted
    /\ console.stderr = <<>>

\* C4 as claimed: the effective level of a record is the hierarchical lookup
\* of the record's own module path.
C4_FullPathLookup ==
    last.op = "log" /\ IsSome(last.rec.module_path) =>
        last.level = ResolveOr(params.mod_level, Unwrap(last.rec.module_path),
                               params.default_level)

\* the module path without a leading "<exe_name>::"; "main" for the
\* executable's own name, "undefined" for a record without module path
Tag(exe, module_path) ==
    IF module_path = None THEN pUndefined
    ELSE LET P == Unwrap(module_path)
         IN  IF exe = None THEN P
             ELSE IF P = Unwrap(exe) THEN pMain
             ELSE IF IsPrefixAt(P, Unwrap(exe) \o Sep, 1)
             THEN SubSeq(P, Len(Unwrap(exe)) + 3, Len(P))
             ELSE P

\* C4 amended: the effective level of a record is the hierarchical lookup of
\* its module tag, the module path with a leading executable name removed.
C4_TagLookup ==
    last.op = "log" =>
        last.level = ResolveOr(params.mod_level, Tag(exe_name, last.rec.module_path),
                               params.default_level)

\* a record of a::b in executable a was governed by the override of b and
\* not by the override of a::b
C4_Witness ==
    /\ last.op = "log"
    /\ exe_name = Some(pA)
    /\ last.rec.module_path = Some(pAB)
    /\ pAB \in DOMAIN params.mod_level
    /\ pB \in DOMAIN params.mod_level
    /\ params.mod_level[pAB] # params.mod_level[pB]
    /\ last.level = params.mod_level[pB]

\* the public mutators of Logger
Mutators == {"set_default_level", "set_mod_level", "set_log_config", "set_log_dest",
             "set_color", "set_timestamp", "set_brief_info"}

\* C5: in every interleaving, when a public mutator returns, the gate of the
\* log facade equals LoggerParams.max_level.
C5_GateInSyncOnReturn ==
    [][\A t \in Threads :
          th[t].pc = "body" /\ th'[t].pc = "idle" /\ th[t].call.op \in Mutators
             => gate' = to_level_filter(params'.max_level)]_vars

\* C6: set_log_dest with a stream-class destination and no stream handle
\* returns InvParam and leaves destination, stream and buffer as they were.
C6_NoHandleRejected ==
    [][last'.op = "set_log_dest" /\ last'.no_handle =>
          /\ last'.ret = "InvParam"
          /\ params'.log_dest = params.log_dest
          /\ params'.log_stream = params.log_stream
          /\ params'.log_buffer = params.log_buffer]_vars

\* the call was rejected while a buffer with content was in use
C6_Witness ==
    /\ last.op = "set_log_dest"
    /\ last.no_handle
    /\ last.ret = "InvParam"
    /\ is_buffer_dest(params.log_dest)
    /\ IsSome(params.log_buffer)
    /\ Unwrap(params.log_buffer) # <<>>

\* C7: a stream-class destination has a stream attached, a buffer-class
\* destination has a buffer allocated, and Logger::log never takes its
\* stderr fallback for a missing stream or buffer.
C7_SinkOfDestinationPresent ==
    /\ is_stream_dest(params.log_dest) => IsSome(params.log_stream)
    /\ is_buffer_dest(params.log_dest) => IsSome(params.log_buffer)
    /\ last.op = "log" => ~last.fallback

\* a record was written to the stream of destination Stream
C7_Witness ==
    /\ last.op = "log"
    /\ last.emitted
    /\ params.log_dest = "Stream"
    /\ IsSome(params.log_stream)
    /\ streams[Unwrap(params.log_stream)] # <<>>
    /\ console.stderr = <<>>

\* C8: buffered content survives the round trip buffer-class -> stream-class
\* -> buffer-class made with set_log_dest: the buffer keeps it all along and
\* the retrieval after the round trip returns it.
C8_RoundTripKeepsBuffer ==
    /\ trip.phase \in {"stream", "back"} => params.log_buffer = Some(trip.snap)
    /\ trip.phase = "got" => last.op = "get_buffer" /\ last.ret = Some(trip.snap)

\* content was retrieved after a round trip
C8_Witness ==
    /\ trip.phase = "got"
    /\ trip.snap # <<>>
    /\ last.ret = Some(trip.snap)
    /\ is_buffer_dest(params.log_dest)

\* a step of LoggerParams::set_log_dest away from a buffer-class destination
LeavesBufferDest ==
    /\ last'.op \in {"set_log_dest", "set_log_config"}
    /\ is_buffer_dest(params.log_dest)
    /\ ~is_buffer_dest(params'.log_dest)

SinkLine(n) == format_output(params, SinkRecord(n), pZ)

PlainDests == {"Stdout", "Stderr"}

\* C11 as claimed: get_buffer returns None whenever the current destination
\* is not buffer-class, also after a switch from a buffer-class destination
\* to a stream-class one.
C11_AbsentUnlessBufferDest ==
    [][last'.op = "get_buffer" /\ ~is_buffer_dest(params.log_dest)
          => last'.ret = None]_vars

\* C11 amended: get_buffer returns None exactly when no buffer is allocated;
\* that is always so under Stdout and Stderr and never so under a
\* buffer-class destination, and under a stream-class destination the buffer
\* kept from an earlier buffer-class destination is returned.
C11_AbsentIffNoBuffer ==
    [][last'.op = "get_buffer" =>
          /\ last'.ret = None <=> params.log_buffer = None
          /\ params.log_dest \in PlainDests => last'.ret = None
          /\ is_buffer_dest(params.log_dest) => last'.ret # None]_vars

\* under a stream-class destination get_buffer returned the content kept
\* from the buffer-class destination before
C11_Witness ==
    /\ last.op = "get_buffer"
    /\ is_stream_dest(params.log_dest)
    /\ IsSome(last.ret)
    /\ Unwrap(last.ret) # <<>>


\* Logger::set_log_dest is called while a stream-class destination with its
\* stream is current
SwitchFromStream ==
    /\ last'.op = "set_log_dest"
    /\ is_stream_dest(params.log_dest)
    /\ IsSome(params.log_stream)

\* the flush() calls the call in progress made on stream id
FlushesOf(fl, id) == Len(SelectSeq(fl, LAMBDA x : x = id))

\* only the attached stream is written to
OnlyAttachedWritten ==
    \A id \in DOMAIN streams : params.log_stream # Some(id) => streams'[id] = streams[id]

\* C12 as claimed: a switch away from a stream-class destination calls
\* flush() of the attached stream exactly once, before it is detached, and
\* no write reaches the stream afterwards.
C12_FlushedOnce ==
    [][/\ SwitchFromStream => FlushesOf(flushed', Unwrap(params.log_stream)) = 1
       /\ OnlyAttachedWritten]_vars

\* C12 amended: Logger::set_log_dest calls flush() of the attached stream
\* twice, once in logger.flush() and once in LoggerParams::set_log_dest, both
\* before the stream is detached; a successful call detaches the stream, and
\* a detached stream is never written to again.
C12_FlushedTwiceThenDetached ==
    [][/\ SwitchFromStream =>
             /\ flushed' = <<Unwrap(params.log_stream), Unwrap(params.log_stream)>>
             /\ last'.ret = "Ok" => params'.log_stream # params.log_stream
             /\ last'.ret # "Ok" => params'.log_stream = params.log_stream
             /\ streams'[Unwrap(params.log_stream)] = streams[Unwrap(params.log_stream)]
       /\ OnlyAttachedWritten]_vars

\* a stream that a record was written to was flushed twice and detached by a
\* switch to a buffer-class destination
C12_Witness ==
    /\ last.op = "set_log_dest"
    /\ last.ret = "Ok"
    /\ flushed = <<1, 1>>
    /\ is_buffer_dest(params.log_dest)
    /\ params.log_stream = None
    /\ streams[1] = SinkLine(1)


\* C13 as claimed: a stream and a buffer are never attached at the same time.
C13_StreamXorBuffer ==
    ~(IsSome(params.log_stream) /\ IsSome(params.log_buffer))

\* C13 amended: a stream is attached exactly under the stream-class
\* destinations, a buffer is allocated under every buffer-class destination
\* and under no plain console destination; both are attached at the same
\* time only under a stream-class destination.
C13_SinksByDestination ==
    /\ IsSome(params.log_stream) <=> is_stream_dest(params.log_dest)
    /\ is_buffer_dest(params.log_dest) => IsSome(params.log_buffer)
    /\ params.log_dest \in PlainDests => params.log_buffer = None
    /\ IsSome(params.log_stream) /\ IsSome(params.log_buffer)
          => is_stream_dest(params.log_dest)

\* a stream and a buffer with content are attached after a switch from a
\* buffer-class to a stream-class destination
C13_Witness ==
    /\ last.op = "set_log_dest"
    /\ last.ret = "Ok"
    /\ is_stream_dest(params.log_dest)
    /\ IsSome(params.log_stream)
    /\ params.log_buffer = Some(SinkLine(1))


\* the line Logger::log formats for the record of the step
LineOf(rec) == format_output(params, rec, mod_name_tag(exe_name, rec.module_path)[1])

\* C14: an emitted record is written once to the attached stream iff the
\* destination is stream-class, to the buffer iff it is buffer-class, to
\* stdout iff it is stdout-affine and to stderr iff it is stderr-affine, and
\* to nothing else.
C14_RoutedByDestination ==
    [][nrec' # nrec /\ last'.emitted =>
          LET d == params.log_dest
              out == LineOf(last'.rec)
          IN  /\ out # <<>>
              /\ IF is_stream_dest(d)
                 THEN streams' = [streams EXCEPT ![Unwrap(params.log_stream)] = @ \o out]
                 ELSE streams' = streams
              /\ IF is_buffer_dest(d)
                 THEN params'.log_buffer = Some(Unwrap(params.log_buffer) \o out)
                 ELSE params'.log_buffer = params.log_buffer
              /\ console'.stdout = IF is_stdout(d) THEN console.stdout \o out
                                   ELSE console.stdout
              /\ console'.stderr = IF is_stderr(d) THEN console.stderr \o out
                                   ELSE console.stderr]_vars

\* a record under StreamStderr went to the stream and to stderr, after one
\* under BufferStdout went to the buffer and to stdout
C14_Witness ==
    /\ last.op = "log"
    /\ last.emitted
    /\ params.log_dest = "StreamStderr"
    /\ streams[Unwrap(params.log_stream)] = SinkLine(2)
    /\ console.stderr = SinkLine(2)
    /\ console.stdout = SinkLine(1)
    /\ params.log_buffer = Some(SinkLine(1))


\* the thread is inside the initialization block of Logger::new
InBlock(t) == th[t].pc \in {"cfg", "reg", "gate"}

\* C15: in every interleaving the initialization block of Logger::new is
\* entered by one thread only and once only: it is entered on the call that
\* finds the initialised flag unset, the facade is registered with at most
\* once, and every call of Logger::new after that skips the block.
C15_InitBlockOnce ==
    /\ [](/\ Cardinality({t \in Threads : InBlock(t)}) <= 1
          /\ registered <= 1
          /\ (registered = 1 \/ \E t \in Threads : InBlock(t)) => params.initialised
          /\ \A t \in Threads : th[t].calls > 0 => params.initialised)
    /\ [][\A t \in Threads :
             /\ ~InBlock(t) /\ InBlock(t)' =>
                   /\ ~params.initialised
                   /\ registered = 0
                   /\ \A u \in Threads : ~InBlock(u)
             /\ th[t].pc = "init" /\ params.initialised => ~InBlock(t)']_vars

\* both threads have returned from their calls and the facade was registered
\* with once
C15_Witness ==
    /\ \A t \in Threads : th[t].calls = 1 /\ th[t].pc = "idle"
    /\ registered = 1
    /\ params.initialised
    /\ gate # Off


\* the thread holds a Logger value returned by ONCE.call_once and the clone
HoldsLogger(t) == th[t].pc \notin {"idle", "once"}

\* C16: in every interleaving the singleton Logger with its LoggerParams is
\* constructed once, by the first caller of Logger::new, and every Logger
\* value held by a thread refers to that one LoggerParams.
C16_OneSingleton ==
    /\ [](/\ singletons <= 1
          /\ \A t \in Threads : HoldsLogger(t) => singletons = 1 /\ th[t].logger = 1
          /\ \A t, u \in Threads :
                HoldsLogger(t) /\ HoldsLogger(u) => th[t].logger = th[u].logger)
    /\ [][\A t \in Threads :
             th[t].pc = "once" /\ th'[t].pc = "init" /\ singletons = 1
                => singletons' = 1 /\ params' = params]_vars

\* two threads hold Logger values of the one singleton, after one of them
\* changed its LoggerParams
C16_Witness ==
    /\ \A t \in Threads : HoldsLogger(t) /\ th[t].logger = 1
    /\ singletons = 1
    /\ th[1].pc = "body"
    /\ th[2].pc = "init"
    /\ params.initialised


\* the step in which the Logger::log call of thread t writes and returns
LogReturns(t) == th[t].pc = "body" /\ th[t].call.op = "log" /\ th'[t].pc = "idle"

\* the line is appended once to every sink of the destination current in the
\* state the step starts in, and to nothing else
RoutedWhole(out) ==
    LET d == params.log_dest
    IN  /\ IF is_stream_dest(d)
           THEN streams' = [streams EXCEPT ![Unwrap(params.log_stream)] = @ \o out]
           ELSE streams' = streams
        /\ IF is_buffer_dest(d)
           THEN params'.log_buffer = Some(Unwrap(params.log_buffer) \o out)
           ELSE params'.log_buffer = params.log_buffer
        /\ console'.stdout = IF is_stdout(d) THEN console.stdout \o out ELSE console.stdout
        /\ console'.stderr = IF is_stderr(d) THEN console.stderr \o out ELSE console.stderr
        /\ params'.log_dest = d
        /\ params'.log_stream = params.log_stream

\* C17: with threads emitting and threads switching the destination, a
\* record that passes the level check is written whole, in the one step in
\* which its Logger::log call holds the lock, to every sink of the
\* destination current in that step and to no other sink; it reaches at
\* least one sink, and no step outside such a call writes a line to the
\* console, to a stream attached earlier or to the buffer.
C17_WrittenWholeToOneDestination ==
    [][/\ \A t \in Threads :
             LogReturns(t) =>
                LET rec == th[t].call.arg[1]
                    nt == mod_name_tag(exe_name, rec.module_path)
                IN  IF rec.level <= effective_level(params, nt[2])
                    THEN /\ last'.ret = "Emitted"
                         /\ RoutedWhole(format_output(params, rec, nt[1]))
                         /\ <<console, streams, params.log_buffer>>
                               # <<console', streams', params'.log_buffer>>
                    ELSE /\ last'.ret = "Dropped"
                         /\ <<console, streams, params>> = <<console', streams', params'>>
       /\ (\A t \in Threads : ~LogReturns(t)) =>
             /\ console' = console
             /\ \A id \in DOMAIN streams : streams'[id] = streams[id]
             /\ params'.log_buffer \in {None, Some(<<>>), params.log_buffer}]_vars

\* a record was written to the attached stream and to stderr while the other
\* thread was between the flush and the switch of its set_log_dest call
C17_Witness ==
    /\ last.op = "log"
    /\ last.ret = "Emitted"
    /\ last.thread = 1
    /\ th[2].pc = "body"
    /\ th[2].call.op = "set_log_dest"
    /\ params.log_dest = "StreamStderr"
    /\ streams[Unwrap(params.log_stream)] # <<>>
    /\ console.stderr # <<>>


\* the line of the record thread t emits
RaceLine(t) == format_output(params, RaceRecord(t, Info), pZ)

RaceLines == {RaceLine(t) : t \in Threads}

\* s is a sequence of whole lines
RECURSIVE IsLines(_)
IsLines(s) ==
    \/ s = <<>>
    \/ \E line \in RaceLines :
          /\ Len(line) <= Len(s)
          /\ SubSeq(s, 1, Len(line)) = line
          /\ IsLines(SubSeq(s, Len(line) + 1, Len(s)))

\* C18: with threads emitting and threads switching the destination, the
\* content of every stream and of the buffer is a sequence of whole lines:
\* the bytes of a record's line are contiguous, no line holds bytes of two
\* records.
C18_LinesContiguous ==
    /\ \A id \in DOMAIN streams : IsLines(streams[id])
    /\ IsSome(params.log_buffer) => IsLines(Unwrap(params.log_buffer))
    /\ IsLines(console.stdout)
    /\ IsLines(console.stderr)

\* the lines of both threads follow each other in one stream, written while
\* the calls of the two threads overlapped
C18_Witness ==
    /\ \E id \in DOMAIN streams : streams[id] = RaceLine(2) \o RaceLine(1)
    /\ last.op = "log"
    /\ last.thread = 1
    /\ th[2].pc = "body"


\* a configuration file was read and applied without error
Applied == last'.op = "apply_file" /\ last'.ret = "Ok"

\* C20 as claimed: applying a configuration leaves every setting whose key
\* is absent as it was.
C20_AbsentKeysUntouched ==
    [][Applied =>
          /\ last'.file.default_level = None => params'.default_level = params.default_level
          /\ last'.file.color = None => params'.color = params.color
          /\ last'.file.mod_level = None => params'.mod_level = params.mod_level
          /\ last'.file.log_dest = None => params'.log_dest = params.log_dest]_vars

\* C20 amended: applying a configuration sets every setting whose key is
\* absent to the default of LogConfigBuilder::new, whatever it was before:
\* the default level becomes Info, color false and the destination Stderr;
\* only the module overrides are left as they were.
C20_AbsentKeysReset ==
    [][Applied =>
          /\ last'.file.default_level = None => params'.default_level = DEFAULT_LOG_LEVEL
          /\ last'.file.color = None => ~params'.color
          /\ last'.file.mod_level = None => params'.mod_level = params.mod_level
          /\ last'.file.log_dest = None => params'.log_dest = DEFAULT_LOG_DEST]_vars

\* a file with the color key only was applied after set_default_level(Trace)
\* and the default level is Info
C20_Witness ==
    /\ last.op = "apply_file"
    /\ last.ret = "Ok"
    /\ last.file.default_level = None
    /\ last.file.color = Some(TRUE)
    /\ params.color
    /\ params.default_level = Info
    /\ pB \in DOMAIN params.mod_level
    /\ params.max_level = Debug


\* the step of thread t through the LOG_CONFIG block of Logger::new
ConfigStep(t) == th[t].pc = "cfg" /\ th'[t].pc # "cfg"

\* C19: whatever the configuration named by LOG_CONFIG does, Logger::new
\* goes on to register with the facade and to set the gate; a file that
\* cannot be read or parsed is reported on stderr and leaves the settings as
\* they were, and a configuration from a file never fails to apply.
C19_ConfigFailureNotFatal ==
    /\ [][\A t \in Threads :
             /\ ConfigStep(t) =>
                   /\ th'[t].pc = "reg"
                   /\ last'.op = "log_config"
                   /\ last'.kind # "apply_failed"
                   /\ IF last'.kind = "read_failed"
                      THEN /\ console'.stderr = console.stderr \o Report("read_failed")
                           /\ params' = params
                           /\ gate' = gate
                      ELSE console'.stderr = console.stderr
             /\ th[t].pc = "reg" /\ th'[t].pc # "reg" =>
                   th'[t].pc = "gate" /\ registered' = 1
             /\ th[t].pc = "gate" /\ th'[t].pc # "gate" =>
                   /\ registered' = 1
                   /\ gate' = to_level_filter(params'.max_level)
                   /\ params'.initialised]_vars
    /\ [](\A t \in Threads :
             /\ th[t].pc = "reg" => ENABLED NewRegister(t)
             /\ th[t].pc = "gate" => ENABLED NewGate(t))

\* the first call has returned after a configuration file that could not be
\* read: the failure is on stderr, the logger is registered, the gate is set
\* and the settings are the defaults
C19_Witness ==
    /\ \E t \in Threads : th[t].pc = "idle" /\ th[t].calls = 1
                          /\ th[t].call.op = "set_timestamp"
    /\ \A t \in Threads : th[t].pc = "idle"
    /\ console.stderr = Report("read_failed")
    /\ registered = 1
    /\ gate = to_level_filter(DEFAULT_LOG_LEVEL)
    /\ params.default_level = DEFAULT_LOG_LEVEL
    /\ params.log_dest = DEFAULT_LOG_DEST
    /\ params.mod_level = <<>>
    /\ ~params.color



\* the destination named by the log_dest key of a configuration file
NamedDest(file) == Unwrap(LogDestination_from_str(Unwrap(file.log_dest)))

\* C21: a log_dest named in the configuration file is the destination of the
\* LogConfig that from_file builds and, once that configuration is applied,
\* the destination of the logger.
C21_FileDestinationApplied ==
    [][Applied /\ IsSome(last'.file.log_dest) =>
          /\ from_file(last'.file).config.log_dest = NamedDest(last'.file)
          /\ params'.log_dest = NamedDest(last'.file)]_vars



\* the canonical name of a destination
CanonicalName(d) ==
    CASE d = "Stdout" -> <<"s", "t", "d", "o", "u", "t">>
      [] d = "Stderr" -> <<"s", "t", "d", "e", "r", "r">>
      [] d = "Stream" -> <<"s", "t", "r", "e", "a", "m">>
      [] d = "StreamStdout" -> <<"s", "t", "r", "e", "a", "m", "s", "t", "d", "o", "u", "t">>
      [] d = "StreamStderr" -> <<"s", "t", "r", "e", "a", "m", "s", "t", "d", "e", "r", "r">>
      [] d = "Buffer" -> <<"b", "u", "f", "f", "e", "r">>
      [] d = "BufferStdout" -> <<"b", "u", "f", "f", "e", "r", "s", "t", "d", "o", "u", "t">>
      [] d = "BufferStderr" -> <<"b", "u", "f", "f", "e", "r", "s", "t", "d", "e", "r", "r">>

\* the two characters are the same ASCII letter in either case, or the same
\* character
SameLetter(a, b) ==
    \/ a = b
    \/ \E i \in 1..Len(LowerCase) : {a, b} = {LowerCase[i], UpperCase[i]}

\* s is the canonical name of d written in some mix of cases
Names(s, d) ==
    /\ Len(s) = Len(CanonicalName(d))
    /\ \A i \in 1..Len(s) : SameLetter(s[i], CanonicalName(d)[i])

\* C22: from_str returns the destination whose canonical name the string is
\* when case is ignored, a different destination for each of the 8 names,
\* and the InvParam error for every string that is none of the names.
C22_ParsesCanonicalNames ==
    last.op = "from_str" =>
        /\ \A d \in LogDestination :
              Names(last.dest, d) => last.ret = [ok |-> TRUE, value |-> d]
        /\ (\A d \in LogDestination : ~Names(last.dest, d))
              => last.ret = [ok |-> FALSE, err |-> "InvParam"]
        /\ \A d, e \in LogDestination :
              FromStrResult(CanonicalName(d)) = FromStrResult(CanonicalName(e)) => d = e

\* StreamStdErr was parsed to StreamStderr, which is neither Stream nor Stderr
C22_Witness ==
    /\ last.op = "from_str"
    /\ last.dest = <<"S", "t", "r", "e", "a", "m", "S", "t", "d", "E", "r", "r">>
    /\ last.ret = [ok |-> TRUE, value |-> "StreamStderr"]



\* C23: whatever the write calls of Logger::log return, the call returns the
\* unit value and leaves the gate and every field of LoggerParams but the
\* buffer content as they were; each sink of the destination gets the line
\* iff its own write succeeded, so that a failed write to the stream does
\* not keep the line from the console, nor a failed write to the console
\* from the stream or the buffer.
C23_WriteFailureContained ==
    [][nrec' # nrec =>
          LET d == params.log_dest
              io == last'.io
              out == LineOf(last'.rec)
          IN  /\ last'.ret = "unit"
              /\ gate' = gate
              /\ [params' EXCEPT !.log_buffer = params.log_buffer] = params
              /\ last'.emitted =>
                    /\ streams' = IF is_stream_dest(d) /\ io.stream
                                  THEN [streams EXCEPT ![Unwrap(params.log_stream)] = @ \o out]
                                  ELSE streams
                    /\ params'.log_buffer = IF is_buffer_dest(d)
                                            THEN Some(Unwrap(params.log_buffer) \o out)
                                            ELSE params.log_buffer
                    /\ console'.stdout = IF is_stdout(d) /\ io.console
                                         THEN console.stdout \o out ELSE console.stdout
                    /\ console'.stderr = IF is_stderr(d) /\ io.console
                                         THEN console.stderr \o out ELSE console.stderr
              /\ ~last'.emitted => Observable' = Observable]_vars

\* under StreamStderr the first record reached stderr though the write to
\* the stream failed, and the second reached the stream though the write to
\* stderr failed
C23_Witness ==
    /\ last.op = "log"
    /\ nrec = 2
    /\ params.log_dest = "StreamStderr"
    /\ last.io = [stream |-> TRUE, console |-> FALSE]
    /\ last.res = "Err"
    /\ streams[Unwrap(params.log_stream)] = SinkLine(2)
    /\ console.stderr = SinkLine(1)



\* the step in which the public operation called by thread t returns
Returns(t) == th[t].pc = "body" /\ th'[t].pc = "idle"

\* C24: when a public operation returns on a thread, the logger is
\* registered with the log facade, the gate has been set from max_level and
\* no thread is inside the initialization block of Logger::new.
C24_ReturnsAfterInitialization ==
    [][\A t \in Threads :
          Returns(t) =>
             /\ registered' = 1
             /\ gate' # Off
             /\ \A u \in Threads : ~InBlock(u)']_vars



\* the content of the streams, in the order of their creation
RECURSIVE Flat(_)
Flat(strs) == IF strs = <<>> THEN <<>> ELSE Flat(SubSeq(strs, 1, Len(strs) - 1)) \o strs[Len(strs)]

\* the content of the buffer; nothing when no buffer is allocated
Buffered(p) == IF IsSome(p.log_buffer) THEN Unwrap(p.log_buffer) ELSE <<>>

IsPrefix(s, u) == Len(s) <= Len(u) /\ SubSeq(u, 1, Len(s)) = s

\* the step in which the set_log_file call of thread t returns Ok
FileAttached(t) ==
    Returns(t) /\ th[t].call.op = "set_log_file" /\ last'.ret = "Ok"

\* C25: with threads emitting and threads switching, a set_log_file call
\* that succeeds puts the whole buffer content at the start of the new file,
\* leaves the buffer empty and attaches the file, all in the one step in
\* which it holds the lock; what a file holds stays where it is, so the
\* drained content precedes every record emitted after the switch; and no
\* record is lost or lands in the buffer after the drain: the files in the
\* order of their creation followed by the buffer hold the emitted records
\* in emission order, and the buffer is empty while a file is attached.
C25_DrainedIntoFileAtomically ==
    /\ [](/\ Flat(streams) \o Buffered(params) = console.stdout
          /\ is_stream_dest(params.log_dest) => Buffered(params) = <<>>)
    /\ [][/\ \A t \in Threads :
                FileAttached(t) =>
                   /\ streams' = Append(streams, Buffered(params))
                   /\ params'.log_buffer =
                         IF IsSome(params.log_buffer) THEN Some(<<>>) ELSE None
                   /\ params'.log_stream = Some(Len(streams'))
                   /\ params'.log_dest = log_file_dest(th[t].call.arg[1])
          /\ \A id \in DOMAIN streams : IsPrefix(streams[id], streams'[id])]_vars

\* the record thread 2 emitted into the buffer was drained into the file
\* thread 1 attached, while the next Logger::log call of thread 2 was waiting
\* for the lock
C25_Witness ==
    /\ last.op = "set_log_file"
    /\ last.ret = "Ok"
    /\ last.thread = 1
    /\ streams = <<RaceLine(2)>>
    /\ params.log_buffer = Some(<<>>)
    /\ params.log_stream = Some(1)
    /\ console.stdout = RaceLine(2)
    /\ th[2].pc = "body"
    /\ th[2].call.op = "log"



\* C26: a set_log_file call that returns an error leaves the destination,
\* the attached stream and the unretrieved buffer content as they were.
C26_FailedFileSwitchChangesNothing ==
    [][last'.op = "set_log_file" /\ last'.ret # "Ok" =>
          /\ params'.log_dest = params.log_dest
          /\ params'.log_stream = params.log_stream
          /\ params'.log_buffer = params.log_buffer]_vars



\* C27: a set_log_config call that returns an error leaves the logger as it
\* was: default level, overrides, max level, gate, destination, stream,
\* buffer and decoration flags.
C27_FailedConfigChangesNothing ==
    [][last'.op = "set_log_config" /\ last'.ret # "Ok" =>
          params' = params /\ gate' = gate]_vars



\* C28: a thread holds the mutex only inside the critical section it took it
\* for, so it never comes to a lock() while it holds the mutex and never
\* returns with it; one thread at most holds it; and when every thread that
\* can take a step takes one eventually, every call returns.
C28_NoDeadlock ==
    /\ [](/\ \A t \in Threads : th[t].held \in {"", th[t].pc}
          /\ \A t \in Threads : th[t].pc \notin LockPoints => th[t].held = ""
          /\ \A t, u \in Threads : th[t].held # "" /\ th[u].held # "" => t = u)
    /\ \A t \in Threads : (th[t].pc # "idle") ~> (th[t].pc = "idle" /\ th[t].held = "")

\* thread 2 has come to the lock() of Logger::log while thread 1 holds the
\* mutex in the body of set_log_dest, after thread 2 made the first call
C28_Witness ==
    /\ th[1].pc = "body"
    /\ th[1].held = "body"
    /\ th[1].call.op = "set_log_dest"
    /\ th[2].pc = "body"
    /\ th[2].held = ""
    /\ th[2].call.op = "log"
    /\ th[2].calls = 1
    /\ registered = 1

\* C29: every iteration of the loop of get_mod_level either returns, with
\* None or a level, or goes on with a strictly shorter path; a call makes
\* no more iterations than its path has characters, plus one; and every
\* call returns.
C29_LookupTerminates ==
    /\ [][lk.pc = "loop" =>
             \/ /\ lk'.pc = "done"
                /\ lk'.ret \in {None} \cup {Some(level) : level \in Levels}
             \/ /\ lk'.pc = "loop"
                /\ Len(lk'.path) < Len(lk.path)]_vars
    /\ [](lk.iters + Len(lk.path) <= Len(lk.module) + 1)
    /\ (lk.pc = "loop") ~> (lk.pc = "done")

\* the lookup of a::b::c returned the level of a in its third iteration
C29_Witness ==
    /\ lk.pc = "done"
    /\ lk.module = pABC
    /\ lk.iters = 3
    /\ lk.path = pA
    /\ pA \in DOMAIN params.mod_level
    /\ lk.ret = Some(params.mod_level[pA])

\* a path that is empty, starts or ends with "::", or holds three colons in
\* a row
Malformed(path) ==
    \/ path = pEmpty
    \/ IsPrefixAt(path, Sep, 1)
    \/ IsPrefixAt(path, Sep, Len(path) - 1)
    \/ \E i \in 1..Len(path) : IsPrefixAt(path, <<":", ":", ":">>, i)

\* C30: a record with an empty or malformed module path is compared with
\* the default level, whatever the override table holds.
C30_MalformedResolvesToDefault ==
    lk.pc = "done" /\ Malformed(lk.module) =>
        /\ effective_level(params, lk.module) = params.default_level
        /\ lk.ret \in {None, Some(params.default_level)}

\* the name in brackets stands somewhere in the line
HasTag(line, name) ==
    \E i \in 1..Len(line) :
        /\ i + Len(name) + 1 <= Len(line)
        /\ SubSeq(line, i, i + Len(name) + 1) = <<"[">> \o name \o <<"]">>

\* the line holds no bracket at all
NoTag(line) == \A i \in 1..Len(line) : line[i] \notin {"[", "]"}

\* what Logger::log of the record has appended to stderr
Appended == SubSeq(console'.stderr, Len(console.stderr) + 1, Len(console'.stderr))

\* C31: the line of an emitted record holds no module tag if and only if
\* brief_info is set and the record's level is Info; in every other case it
\* holds the full module path of the record in brackets ("undefined" for a
\* record without module path), whatever the executable's name is.
C31_TagOmittedIffBriefInfo ==
    [][nrec' = nrec + 1 /\ last'.emitted =>
          /\ Len(Appended) > 0
          /\ NoTag(Appended) <=> (params.brief_info /\ last'.rec.level = Info)
          /\ ~(params.brief_info /\ last'.rec.level = Info) =>
                HasTag(Appended, IF IsSome(last'.rec.module_path)
                                 THEN Unwrap(last'.rec.module_path) ELSE pUndefined)]_vars

\* an Info record of a::b in executable a was written without brackets
\* while brief_info is set
C31_Witness ==
    /\ last.op = "log"
    /\ last.emitted
    /\ last.rec.level = Info
    /\ last.rec.module_path = Some(pAB)
    /\ exe_name = Some(pA)
    /\ params.brief_info
    /\ Len(console.stderr) > 0
    /\ NoTag(console.stderr)

\* persistence class and console affinity of a destination, as the four
\* predicates give them
Combination(d) == <<is_stream_dest(d), is_buffer_dest(d), is_stdout(d), is_stderr(d)>>

\* C32: for the destination in use, and so for each of the 8 destinations,
\* at most one of is_stream_dest and is_buffer_dest holds, at most one of
\* is_stdout and is_stderr holds, at least one of the four holds, and no
\* other destination has the same combination.
C32_PredicatesPartition ==
    LET d == params.log_dest
    IN  /\ d \in LogDestination
        /\ Cardinality(LogDestination) = 8
        /\ ~(is_stream_dest(d) /\ is_buffer_dest(d))
        /\ ~(is_stdout(d) /\ is_stderr(d))
        /\ is_stream_dest(d) \/ is_buffer_dest(d) \/ is_stdout(d) \/ is_stderr(d)
        /\ \A e \in LogDestination : Combination(e) = Combination(d) => e = d

\* set_log_dest has switched to StreamStderr, which is stream-class and
\* writes to stderr, and a record was written
C32_Witness ==
    /\ params.log_dest = "StreamStderr"
    /\ is_stream_dest(params.log_dest)
    /\ is_stderr(params.log_dest)
    /\ IsSome(params.log_stream)
    /\ last.op = "log"
    /\ last.emitted

====
